---- MODULE Spec2Model ----
(***************************************************************************)
(* Verification model of the attribution engine of jionysos/causely:       *)
(*   - MetricRegistry (metrics.py): register, compute_metric,               *)
(*     compute_category, _compute_recursive with its per-call cache;        *)
(*   - woe_iv (woe_iv.py): binning and WoE/IV of one variable;              *)
(*   - get_iv_ranking / get_high_iv_detail_tables (report_tables.py).       *)
(* Each part has its own specification over the shared variables; the      *)
(* variables of the other parts stay at their initial value.               *)
(***************************************************************************)
EXTENDS Integers, Sequences, FiniteSets, TLC

VARIABLES
    metrics,    \* MetricRegistry._metrics: key -> Metric, for the registered keys
    lastReg,    \* outcome of the last register call: "none", "ok", "ValueError"
    rpc,        \* position of the registry call: "idle", "running", "done", "failed"
    call,       \* the call in progress or last finished
    cache,      \* the cache dict of the call: key -> result
    stack,      \* active _compute_recursive frames, innermost last
    pending,    \* keys the top-level loop still has to compute
    out,        \* results returned to the top level so far: key -> result
    result,     \* value returned by the call
    err,        \* exception the call raised, "none" when it did not raise
    log,        \* compute functions invoked during the call, in order
    wpc,        \* position of the woe_iv call: "idle", "ready", "done"
    data,       \* woe_iv: the column data[var], a sequence of values
    target,     \* woe_iv: the label series, a sequence of 0/1
    bins,       \* woe_iv: the bins argument
    numeric,    \* woe_iv: data[var].dtype.kind in 'bifc'
    IV,         \* woe_iv: the IV returned for var, in thousandths
    kpc,        \* position of the report: "idle", "start", "keyed", "ready", "ranked",
                \* "failed", "detailed", "packed"; of a call of
                \* build_components_for_llm alone: "assemble", "assembled", "broken"
    items,      \* order-item table: [cols, rows]
    adj,        \* adjustment table: [cols, rows]
    today,      \* the today date
    compare_date, \* the baseline date
    iv_ranking, \* iv_result["ranking"] of get_iv_ranking: sequence of [name, iv]
    kerr,       \* exception a call after the two metric tables raised, "none" when
                \* every call returned
    threshold,  \* threshold argument of get_high_iv_detail_tables, in thousandths
    top_n,      \* top_n argument of get_high_iv_detail_tables
    high_iv_tables, \* the list get_high_iv_detail_tables returned
    products,      \* the products keyword of the call of get_high_iv_detail_tables
    ad_costs,      \* the optional ad cost table
    influencer_costs, \* the optional influencer cost table
    key_metric_df, \* the rows build_key_metric_table returned
    cost_detail_df, \* the rows build_cost_detail_table returned
    kmerr,         \* exception build_key_metric_table raised, "none" when it returned
    cderr,         \* exception build_cost_detail_table raised, "none" when it returned
    components,    \* the payload build_components_for_llm returned
    sales_detail,  \* the frame a build_sales_detail_* function returned
    ppc,           \* position of the call of a _row helper of core.py
    helper,        \* the function whose _row is called
    current,       \* argument current / c of _row
    compare,       \* argument compare / p of _row
    row,           \* the dict _row returned
    cpc,           \* position of the call of _iv_cost_by_decile on a cost table
    cost_df,       \* its table: rows of a date and a value
    cost_bins,     \* its argument bins
    quantiles,     \* its local quantiles, in units of 1/bins
    bin,           \* its column sub["bin"]
    cost_iv,       \* the IV it returned
    upc,           \* position of the run of app_0220_2.py: "off", "run", "checked",
                   \* "built", "pressed", "idle" (the page waits for the user)
    event,         \* what started the run: "none", "date", "period", "button", "prompt"
    benchmark_date_input, \* st.session_state["benchmark_date_input"]
    report_period,        \* st.session_state["report_period"]
    iv_report_key,        \* st.session_state["iv_report_key"], NoKey when not set
    iv_report,            \* st.session_state["iv_report"]
    iv_report_context,    \* st.session_state["iv_report_context"]
    iv_chat_messages,     \* st.session_state["iv_chat_messages"]
    shown,                \* the report the page shows
    rendered              \* the button and the chat input, when the page has them

regVars == <<metrics, lastReg, rpc, call, cache, stack, pending, out, result, err, log>>

woeVars == <<wpc, data, target, bins, numeric, IV>>

rankVars == <<kpc, items, adj, today, compare_date, iv_ranking, kerr, threshold, top_n,
              high_iv_tables, products, ad_costs, influencer_costs, key_metric_df,
              cost_detail_df, kmerr, cderr, components, sales_detail>>

coreVars == <<ppc, helper, current, compare, row>>

costVars == <<cpc, cost_df, cost_bins, quantiles, bin, cost_iv>>

uiVars == <<upc, event, benchmark_date_input, report_period, iv_report_key, iv_report,
            iv_report_context, iv_chat_messages, shown, rendered>>

vars == <<metrics, lastReg, rpc, call, cache, stack, pending, out, result, err, log,
          wpc, data, target, bins, numeric, IV,
          kpc, items, adj, today, compare_date, iv_ranking, kerr, threshold, top_n,
          high_iv_tables, products, ad_costs, influencer_costs, key_metric_df,
          cost_detail_df, kmerr, cderr, components, sales_detail,
          ppc, helper, current, compare, row,
          cpc, cost_df, cost_bins, quantiles, bin, cost_iv,
          upc, event, benchmark_date_input, report_period, iv_report_key, iv_report,
          iv_report_context, iv_chat_messages, shown, rendered>>

----------------------------------------------------------------------------
(* Bounds *)

\* Depth at which the interpreter stops a recursion (sys.getrecursionlimit(),
\* 1000 in CPython), scaled down.
RecursionLimit == 6

----------------------------------------------------------------------------
(* Generic helpers *)

EmptyMap == [x \in {} |-> 0]

Range(f) == {f[x] : x \in DOMAIN f}

SeqRange(s) == {s[i] : i \in 1..Len(s)}

Put(f, k, v) == [x \in (DOMAIN f) \cup {k} |-> IF x = k THEN v ELSE f[x]]

----------------------------------------------------------------------------
(* metrics.py: Metric and MetricRegistry *)

KeyOrder == <<"A", "B", "C", "D">>

Keys == SeqRange(KeyOrder)

KeyIndex(k) == CHOOSE i \in 1..Len(KeyOrder) : KeyOrder[i] = k

Metric(k, cat, tgs, deps, fn) ==
    [key |-> k, category |-> cat, tags |-> tgs, depends_on |-> deps, compute |-> fn]

\* The metrics a caller may try to register.  compute = FALSE stands for
\* compute=None.  "D" <- ("B","C"), "B" <- "A", "C" <- "A" is the diamond;
\* the second "A" closes a cycle through "D"; the last three fail validate.
Catalog ==
    { Metric("A", "Sales",  {"kpi"}, <<>>,         TRUE),
      Metric("A", "Sales",  {},      <<"D">>,      TRUE),
      Metric("B", "Profit", {"kpi"}, <<"A">>,      TRUE),
      Metric("C", "Profit", {},      <<"A">>,      TRUE),
      Metric("C", "Sales",  {"kpi"}, <<"A", "B">>, TRUE),
      Metric("D", "Profit", {"kpi"}, <<"B", "C">>, TRUE),
      Metric("",  "Sales",  {},      <<>>,         TRUE),
      Metric("B", "",       {},      <<>>,         TRUE),
      Metric("C", "Sales",  {},      <<>>,         FALSE) }

Categories == {"Sales", "Profit"}

TagArgs == {"", "kpi"}

\* Metric.validate: TRUE when it raises ValueError.
ValidateRaises(m) == m.key = "" \/ m.category = "" \/ ~m.compute

NoResult == [by |-> "", n |-> 0]

NoCall == [kind |-> "none", key |-> "", category |-> "", tag |-> ""]

\* MetricRegistry.get: found = FALSE stands for KeyError("Unknown metric").
GetDefault(ms, k) ==
    [found |-> TRUE,
     m |-> IF k \in DOMAIN ms THEN ms[k] ELSE Metric(k, "Sales", {}, <<>>, TRUE)]

Get(ms, k) ==
    IF k \in DOMAIN ms
    THEN [found |-> TRUE, m |-> ms[k]]
    ELSE [found |-> FALSE, m |-> Metric(k, "", {}, <<>>, FALSE)]

\* "if key in cache" of _compute_recursive.
InCacheNever(c, k) == FALSE

InCache(c, k) == k \in DOMAIN c

\* 'if "value" not in df.columns' of _compute_recursive; hasValue tells whether
\* the table the compute function returned has a value column.
LacksValueNever(hasValue) == FALSE

LacksValue(hasValue) == ~hasValue

\* The cache compute_category hands to _compute_recursive for the next metric
\* of its loop: the one dict created before the loop.
LoopCacheFresh(c) == EmptyMap

LoopCache(c) == c

\* sorted(ms, key=lambda x: x.key) over a set of keys.
RECURSIVE SortKeys(_)
SortKeys(S) ==
    IF S = {} THEN <<>>
    ELSE LET k == CHOOSE x \in S : \A y \in S : KeyIndex(x) <= KeyIndex(y)
         IN <<k>> \o SortKeys(S \ {k})

\* list_by_category(category) followed by the tag filter of compute_category.
ListByCategory(ms, category) ==
    SortKeys({k \in DOMAIN ms : ms[k].category = category})

CategoryKeys(ms, category, tag) ==
    SelectSeq(ListByCategory(ms, category),
              LAMBDA k : tag = "" \/ tag \in ms[k].tags)

RegInit ==
    /\ metrics = EmptyMap
    /\ lastReg = "none"
    /\ rpc = "idle"
    /\ call = NoCall
    /\ cache = EmptyMap
    /\ stack = <<>>
    /\ pending = <<>>
    /\ out = EmptyMap
    /\ result = NoResult
    /\ err = "none"
    /\ log = <<>>

NeverRegistered(ms, k) == FALSE

\* "if metric.key in self._metrics" of register
AlreadyRegistered(ms, k) == k \in DOMAIN ms

\* MetricRegistry.register
Register(m) ==
    /\ rpc # "running"
    /\ IF ValidateRaises(m) \/ AlreadyRegistered(metrics, m.key)
       THEN /\ lastReg' = "ValueError"
            /\ metrics' = metrics
       ELSE /\ lastReg' = "ok"
            /\ metrics' = Put(metrics, m.key, m)
    /\ UNCHANGED <<rpc, call, cache, stack, pending, out, result, err, log>>
    /\ UNCHANGED <<woeVars, rankVars, coreVars, costVars, uiVars>>

\* MetricRegistry.compute_metric, up to the call of _compute_recursive
ComputeMetric(k) ==
    /\ rpc # "running"
    /\ rpc' = "running"
    /\ call' = [kind |-> "metric", key |-> k, category |-> "", tag |-> ""]
    /\ cache' = EmptyMap
    /\ stack' = <<>>
    /\ pending' = <<k>>
    /\ out' = EmptyMap
    /\ result' = NoResult
    /\ err' = "none"
    /\ log' = <<>>
    /\ UNCHANGED <<metrics, lastReg>>
    /\ UNCHANGED <<woeVars, rankVars, coreVars, costVars, uiVars>>

\* MetricRegistry.compute_category, up to its loop
ComputeCategory(category, tag) ==
    /\ rpc # "running"
    /\ rpc' = "running"
    /\ call' = [kind |-> "category", key |-> "", category |-> category, tag |-> tag]
    /\ cache' = EmptyMap
    /\ stack' = <<>>
    /\ pending' = CategoryKeys(metrics, category, tag)
    /\ out' = EmptyMap
    /\ result' = NoResult
    /\ err' = "none"
    /\ log' = <<>>
    /\ UNCHANGED <<metrics, lastReg>>
    /\ UNCHANGED <<woeVars, rankVars, coreVars, costVars, uiVars>>

\* An exception leaves _compute_recursive and the public method: nothing
\* catches it, every frame is unwound and no value is returned.
Raise(e) ==
    /\ rpc' = "failed"
    /\ err' = e
    /\ stack' = <<>>
    /\ pending' = <<>>
    /\ result' = NoResult

MarkedOnEntry(c, k) == Put(c, k, NoResult)

\* The cache when _compute_recursive starts on a key that is not in it:
\* nothing is stored before "cache[key] = df".
OnEntry(c, k) == c

FrameFromSecond(k) == [key |-> k, i |-> 2, dep_results |-> EmptyMap]

\* A call of _compute_recursive(k, ctx, cache) that found k registered and not
\* in the cache: its loop is at the first key of depends_on and dep_results
\* is empty.
Frame(k) == [key |-> k, i |-> 1, dep_results |-> EmptyMap]

\* The public method calls _compute_recursive(key, ctx, cache) for the next key.
TopCall ==
    /\ rpc = "running"
    /\ stack = <<>>
    /\ pending # <<>>
    /\ LET k == Head(pending)
           c == IF call.kind = "category" THEN LoopCache(cache) ELSE cache
       IN IF InCache(c, k)
          THEN /\ out' = Put(out, k, c[k])
               /\ pending' = Tail(pending)
               /\ cache' = c
               /\ UNCHANGED <<rpc, stack, result, err>>
          ELSE IF ~Get(metrics, k).found
          THEN /\ Raise("KeyError")
               /\ cache' = c
               /\ UNCHANGED out
          ELSE /\ stack' = <<Frame(k)>>
               /\ cache' = OnEntry(c, k)
               /\ UNCHANGED <<rpc, pending, out, result, err>>
    /\ UNCHANGED <<metrics, lastReg, call, log>>
    /\ UNCHANGED <<woeVars, rankVars, coreVars, costVars, uiVars>>

\* One iteration of "for dep in m.depends_on" in the innermost frame.
DepCall ==
    /\ rpc = "running"
    /\ stack # <<>>
    /\ LET n == Len(stack)
           f == stack[n]
           m == Get(metrics, f.key).m
       IN /\ f.i <= Len(m.depends_on)
          /\ LET dep == m.depends_on[f.i]
             IN IF InCache(cache, dep)
                THEN /\ stack' = [stack EXCEPT ![n] =
                            [f EXCEPT !.i = f.i + 1,
                                      !.dep_results = Put(f.dep_results, dep, cache[dep])]]
                     /\ UNCHANGED <<rpc, pending, result, err, cache>>
                ELSE IF ~Get(metrics, dep).found
                THEN Raise("KeyError") /\ UNCHANGED cache
                ELSE IF n >= RecursionLimit
                THEN Raise("RecursionError") /\ UNCHANGED cache
                ELSE /\ stack' = Append(stack, Frame(dep))
                     /\ cache' = OnEntry(cache, dep)
                     /\ UNCHANGED <<rpc, pending, result, err>>
    /\ UNCHANGED <<metrics, lastReg, call, out, log>>
    /\ UNCHANGED <<woeVars, rankVars, coreVars, costVars, uiVars>>

\* "df = m.compute(ctx, dep_results)" and the rest of _compute_recursive in the
\* innermost frame.  The compute function is a black box: hasValue is whether
\* its table has a value column.
Invoke ==
    /\ rpc = "running"
    /\ stack # <<>>
    /\ LET n == Len(stack)
           f == stack[n]
           m == Get(metrics, f.key).m
           df == [by |-> f.key, n |-> Len(log) + 1]
       IN /\ f.i > Len(m.depends_on)
          /\ \E hasValue \in BOOLEAN :
                /\ log' = Append(log, [key |-> f.key, deps |-> f.dep_results,
                                       hasValue |-> hasValue])
                /\ IF LacksValue(hasValue)
                   THEN /\ Raise("ValueError")
                        /\ UNCHANGED <<cache, out>>
                   ELSE /\ cache' = Put(cache, f.key, df)
                        /\ IF n = 1
                           THEN /\ stack' = <<>>
                                /\ out' = Put(out, f.key, df)
                                /\ pending' = Tail(pending)
                           ELSE /\ stack' = [SubSeq(stack, 1, n - 1) EXCEPT ![n - 1] =
                                       [stack[n - 1] EXCEPT
                                           !.i = stack[n - 1].i + 1,
                                           !.dep_results =
                                               Put(stack[n - 1].dep_results, f.key, df)]]
                                /\ UNCHANGED <<out, pending>>
                        /\ UNCHANGED <<rpc, result, err>>
    /\ UNCHANGED <<metrics, lastReg, call>>
    /\ UNCHANGED <<woeVars, rankVars, coreVars, costVars, uiVars>>

\* The public method returns: compute_metric the table of its key,
\* compute_category the dict out.
Return ==
    /\ rpc = "running"
    /\ stack = <<>>
    /\ pending = <<>>
    /\ rpc' = "done"
    /\ result' = IF call.kind = "metric" THEN out[call.key] ELSE NoResult
    /\ UNCHANGED <<metrics, lastReg, call, cache, stack, pending, out, err, log>>
    /\ UNCHANGED <<woeVars, rankVars, coreVars, costVars, uiVars>>

RegNext ==
    \/ \E m \in Catalog : Register(m)
    \/ \E k \in Keys : ComputeMetric(k)
    \/ \E c \in Categories, t \in TagArgs : ComputeCategory(c, t)
    \/ TopCall
    \/ DepCall
    \/ Invoke
    \/ Return


----------------------------------------------------------------------------
(* woe_iv.py: woe_iv for one variable *)

\* Longest column given to woe_iv.
MaxLen == 4

\* Largest value in a column given to woe_iv.
MaxVal == 2

BinsArgs == {1, 2, 3}

RECURSIVE Sum(_, _)
Sum(f, S) ==
    IF S = {} THEN 0
    ELSE LET x == CHOOSE y \in S : TRUE IN f[x] + Sum(f, S \ {x})

RECURSIVE Insert(_, _)
Insert(s, v) ==
    IF s = <<>> THEN <<v>>
    ELSE IF v < Head(s) THEN <<v>> \o s
    ELSE <<Head(s)>> \o Insert(Tail(s), v)

\* The values of a numeric sequence in ascending order.
RECURSIVE Sorted(_)
Sorted(s) == IF s = <<>> THEN <<>> ELSE Insert(Sorted(Tail(s)), Head(s))

\* round(1000 * ln n) for n = 1..480: np.log in thousandths.
LnTable ==
    <<0, 693, 1099, 1386, 1609, 1792, 1946, 2079, 2197, 2303, 2398, 2485,
       2565, 2639, 2708, 2773, 2833, 2890, 2944, 2996, 3045, 3091, 3135, 3178,
       3219, 3258, 3296, 3332, 3367, 3401, 3434, 3466, 3497, 3526, 3555, 3584,
       3611, 3638, 3664, 3689, 3714, 3738, 3761, 3784, 3807, 3829, 3850, 3871,
       3892, 3912, 3932, 3951, 3970, 3989, 4007, 4025, 4043, 4060, 4078, 4094,
       4111, 4127, 4143, 4159, 4174, 4190, 4205, 4220, 4234, 4248, 4263, 4277,
       4290, 4304, 4317, 4331, 4344, 4357, 4369, 4382, 4394, 4407, 4419, 4431,
       4443, 4454, 4466, 4477, 4489, 4500, 4511, 4522, 4533, 4543, 4554, 4564,
       4575, 4585, 4595, 4605, 4615, 4625, 4635, 4644, 4654, 4663, 4673, 4682,
       4691, 4700, 4710, 4718, 4727, 4736, 4745, 4754, 4762, 4771, 4779, 4787,
       4796, 4804, 4812, 4820, 4828, 4836, 4844, 4852, 4860, 4868, 4875, 4883,
       4890, 4898, 4905, 4913, 4920, 4927, 4934, 4942, 4949, 4956, 4963, 4970,
       4977, 4984, 4990, 4997, 5004, 5011, 5017, 5024, 5030, 5037, 5043, 5050,
       5056, 5063, 5069, 5075, 5081, 5088, 5094, 5100, 5106, 5112, 5118, 5124,
       5130, 5136, 5142, 5147, 5153, 5159, 5165, 5170, 5176, 5182, 5187, 5193,
       5198, 5204, 5209, 5215, 5220, 5226, 5231, 5236, 5242, 5247, 5252, 5257,
       5263, 5268, 5273, 5278, 5283, 5288, 5293, 5298, 5303, 5308, 5313, 5318,
       5323, 5328, 5333, 5338, 5342, 5347, 5352, 5357, 5361, 5366, 5371, 5375,
       5380, 5384, 5389, 5394, 5398, 5403, 5407, 5412, 5416, 5421, 5425, 5429,
       5434, 5438, 5442, 5447, 5451, 5455, 5460, 5464, 5468, 5472, 5476, 5481,
       5485, 5489, 5493, 5497, 5501, 5505, 5509, 5513, 5517, 5521, 5525, 5529,
       5533, 5537, 5541, 5545, 5549, 5553, 5557, 5561, 5565, 5568, 5572, 5576,
       5580, 5583, 5587, 5591, 5595, 5598, 5602, 5606, 5609, 5613, 5617, 5620,
       5624, 5628, 5631, 5635, 5638, 5642, 5645, 5649, 5652, 5656, 5659, 5663,
       5666, 5670, 5673, 5677, 5680, 5684, 5687, 5690, 5694, 5697, 5700, 5704,
       5707, 5710, 5714, 5717, 5720, 5724, 5727, 5730, 5733, 5737, 5740, 5743,
       5746, 5749, 5753, 5756, 5759, 5762, 5765, 5768, 5771, 5775, 5778, 5781,
       5784, 5787, 5790, 5793, 5796, 5799, 5802, 5805, 5808, 5811, 5814, 5817,
       5820, 5823, 5826, 5829, 5832, 5835, 5838, 5841, 5844, 5846, 5849, 5852,
       5855, 5858, 5861, 5864, 5866, 5869, 5872, 5875, 5878, 5881, 5883, 5886,
       5889, 5892, 5894, 5897, 5900, 5903, 5905, 5908, 5911, 5914, 5916, 5919,
       5922, 5924, 5927, 5930, 5932, 5935, 5938, 5940, 5943, 5945, 5948, 5951,
       5953, 5956, 5958, 5961, 5964, 5966, 5969, 5971, 5974, 5976, 5979, 5981,
       5984, 5986, 5989, 5991, 5994, 5996, 5999, 6001, 6004, 6006, 6009, 6011,
       6014, 6016, 6019, 6021, 6023, 6026, 6028, 6031, 6033, 6035, 6038, 6040,
       6043, 6045, 6047, 6050, 6052, 6054, 6057, 6059, 6061, 6064, 6066, 6068,
       6071, 6073, 6075, 6078, 6080, 6082, 6084, 6087, 6089, 6091, 6094, 6096,
       6098, 6100, 6103, 6105, 6107, 6109, 6111, 6114, 6116, 6118, 6120, 6122,
       6125, 6127, 6129, 6131, 6133, 6136, 6138, 6140, 6142, 6144, 6146, 6148,
       6151, 6153, 6155, 6157, 6159, 6161, 6163, 6165, 6168, 6170, 6172, 6174 >>

LnMilli(n) == LnTable[n]

\* The q-quantile of the ascending sequence s for q = j/k, multiplied by k
\* (linear interpolation between the two nearest ranks, as Series.quantile
\* and np.percentile compute it).
QuantileTimes(s, j, k) ==
    LET pos == (Len(s) - 1) * j
        lo == pos \div k
        fr == pos % k
    IN IF fr = 0 THEN k * s[lo + 1]
       ELSE k * s[lo + 1] + (s[lo + 2] - s[lo + 1]) * fr

\* pd.qcut(x, k, duplicates='drop'): the bin edges (times k) are the quantiles
\* 0, 1/k, .., 1 without duplicates; a value lies in the first interval whose
\* right edge is not below it, the lowest edge included.
QuantilesOfSorted(s, k, from, to) == {QuantileTimes(s, j, k) : j \in from..to}

QcutEdges(x, k) == QuantilesOfSorted(Sorted(x), k, 0, k)

Least(S) == CHOOSE e \in S : \A o \in S : e <= o

\* The right edge (times k) of the interval of v, the label of its bin.
CutAt(v, k, edges) == Least({e \in edges \ {Least(edges)} : k * v <= e})

CutAll(x, k, edges) == [i \in 1..Len(x) |-> CutAt(x[i], k, edges)]

Qcut(x, k) == CutAll(x, k, QcutEdges(x, k))

\* tmp_x: the bin label of every row.
BinLabels(x, k, isNumeric) ==
    IF isNumeric /\ Cardinality(SeqRange(x)) > k
    THEN Qcut(x, k)
    ELSE x

\* WoE of one bin from its shares PCT_of_E = a/d and PCT_of_NE = c/d.
WoEInverted(a, c) == LnMilli(c) - LnMilli(a)

WoE(a, c) == LnMilli(a) - LnMilli(c)

\* tmp_woe['IV'].sum() in thousandths.  Events + 0.5 and Non_Events + 0.5 are
\* doubled to stay in the integers; with sumE and sumNE the doubled column
\* sums, PCT_of_E = 100 * a / (sumE * sumNE) and PCT_of_NE = 100 * c / (sumE * sumNE).
IvTerm(a, c) == 100 * (a - c) * WoE(a, c)

IvOfShares(cut, E2, NE2, sumE, sumNE) ==
    IF cut = {} THEN 0
    ELSE Sum([b \in cut |-> IvTerm(E2[b] * sumNE, NE2[b] * sumE)], cut)
             \div (sumE * sumNE)

IvOfCounts(cut, E2, NE2) == IvOfShares(cut, E2, NE2, Sum(E2, cut), Sum(NE2, cut))

\* The groupby of tmp: per bin label the doubled Events + 0.5 and
\* Non_Events + 0.5.
IvOfLabels(lab, y) ==
    IvOfCounts(SeqRange(lab),
        [b \in SeqRange(lab) |->
            2 * Cardinality({i \in 1..Len(lab) : lab[i] = b /\ y[i] = 1}) + 1],
        [b \in SeqRange(lab) |->
            2 * Cardinality({i \in 1..Len(lab) : lab[i] = b /\ y[i] # 1}) + 1])

WoeIv(x, y, k, isNumeric) == IvOfLabels(BinLabels(x, k, isNumeric), y)

Columns(n) == UNION {[1..m -> 0..MaxVal] : m \in 0..n}

WoeIdle ==
    /\ wpc = "idle"
    /\ data = <<>>
    /\ target = <<>>
    /\ bins = 0
    /\ numeric = FALSE
    /\ IV = 0

\* A table with one column and a label series of equal length.
WoeInit ==
    /\ wpc = "ready"
    /\ data \in Columns(MaxLen)
    /\ target \in [1..Len(data) -> {0, 1}]
    /\ bins \in BinsArgs
    /\ numeric \in BOOLEAN
    /\ IV = 0

\* woe_iv(data, target, bins)
CallWoeIv ==
    /\ wpc = "ready"
    /\ wpc' = "done"
    /\ IV' = WoeIv(data, target, bins, numeric)
    /\ UNCHANGED <<data, target, bins, numeric>>
    /\ UNCHANGED <<regVars, rankVars, coreVars, costVars, uiVars>>

----------------------------------------------------------------------------
(* report_tables.py: get_iv_ranking *)

\* Most rows of an order-item table.
MaxItems == 3

\* Most rows of an adjustment table.
MaxAdj == 3

\* None / NaN in a cell.
NULL == "NULL"

ItemCols == {"order_ts", "gross_amount", "channel", "ad_id", "influencer_id",
             "discount_amount", "coupon_id", "product_id"}

AdjCols == {"event_ts", "amount", "product_id"}

ItemRow(ts, ch, ad, inf, cp, disc, amt, pid) ==
    [order_ts |-> ts, channel |-> ch, ad_id |-> ad, influencer_id |-> inf,
     coupon_id |-> cp, discount_amount |-> disc, gross_amount |-> amt,
     product_id |-> pid]

AdjRow(ts, pid, amt) == [event_ts |-> ts, product_id |-> pid, amount |-> amt]

\* A timestamp is ten times its day plus the time of day.
Dates == {1, 2}

\* The order-item rows tables are made of, for day dd.
ItemRowsOf(dd) ==
    << ItemRow(10 * dd + 1, "web",  NULL, NULL, NULL, 0,  100, "P1"),
       ItemRow(10 * dd + 2, "app",  "a1", NULL, "c1", 10, 50,  "P2"),
       ItemRow(10 * dd + 3, NULL,   NULL, "i1", NULL, 0,  70,  "P1"),
       ItemRow(10 * dd + 4, "web",  "a1", "i1", "c2", 20, 30,  "P2"),
       ItemRow(10 * dd + 5, NULL,   NULL, NULL, "c1", 10, 100, "P1"),
       ItemRow(10 * dd + 6, "none", NULL, NULL, NULL, 0,  50,  "P2") >>

ItemRowList == ItemRowsOf(1) \o ItemRowsOf(2)

AdjRowsOf(dd) ==
    << AdjRow(10 * dd + 1, "P1", -10),
       AdjRow(10 * dd + 2, "P2", -30),
       AdjRow(10 * dd + 3, NULL, -20) >>

AdjRowList == AdjRowsOf(1) \o AdjRowsOf(2)

\* Tables of at most n rows of list; no function of the model depends on the
\* order of the rows of its input, so one order per multiset of rows is kept.
RowSeqs(list, n) ==
    UNION { { [i \in 1..m |-> list[f[i]]] :
                f \in {g \in [1..m -> 1..Len(list)] :
                          \A i \in 1..m : \A j \in 1..m : i < j => g[i] <= g[j]} } :
            m \in 0..n }

SampleItemRows ==
    << ItemRowList[1], ItemRowList[4], ItemRowList[8], ItemRowList[11] >>

SampleAdjRows ==
    << AdjRowList[2], AdjRowList[4], AdjRowList[5] >>

\* Column sets of the tables given: all columns, or one column missing.
ItemColSets == {ItemCols} \cup {ItemCols \ {c} : c \in ItemCols \ {"gross_amount"}}

AdjColSets == {AdjCols} \cup {AdjCols \ {c} : c \in AdjCols}

\* _to_day: pd.to_datetime(ts).dt.date
_to_day(ts) == ts \div 10

\* _sales_col
_sales_col(tbl) ==
    IF "gross_amount" \in tbl.cols THEN "gross_amount" ELSE "net_sales_amount"

OnDay(tbl, date_col, dd) ==
    SelectSeq(tbl.rows, LAMBDA r : _to_day(r[date_col]) = dd)

\* Series.sum()
RECURSIVE SumSeq(_)
SumSeq(s) == IF s = <<>> THEN 0 ELSE Head(s) + SumSeq(Tail(s))

ColumnSum(rows, col) == SumSeq([i \in 1..Len(rows) |-> rows[i][col]])

\* str.upper() on the cell values of the model.
Upper(v) == IF v \in {"none", "None", "NONE"} THEN "NONE" ELSE v

\* valid = val.notna() & (str(val).strip() != "") & (str(val).upper() != "NONE")
ValidMember(v) == v # NULL /\ v # "" /\ Upper(v) # "NONE"

\* _stack_binary_for_iv: the binary column and the is_today label of the
\* today rows followed by the baseline rows.
_stack_binary_for_iv(tbl, td, cd, dimension_col) ==
    LET binary(r) == IF dimension_col \notin tbl.cols THEN 0
                     ELSE IF ValidMember(r[dimension_col]) THEN 1 ELSE 0
        today_df == OnDay(tbl, "order_ts", td)
        bench_df == OnDay(tbl, "order_ts", cd)
    IN [x |-> [i \in 1..Len(today_df) |-> binary(today_df[i])]
              \o [i \in 1..Len(bench_df) |-> binary(bench_df[i])],
        y |-> [i \in 1..Len(today_df) |-> 1] \o [i \in 1..Len(bench_df) |-> 0]]

\* compute_iv_binary: raised when items["order_ts"] fails before the try.
WoeIvOfStack(st, k) == WoeIv(st.x, st.y, k, TRUE)

compute_iv_binary(tbl, td, cd, dimension_col) ==
    IF "order_ts" \notin tbl.cols
    THEN [raised |-> TRUE, iv |-> 0]
    ELSE [raised |-> FALSE,
          iv |-> WoeIvOfStack(_stack_binary_for_iv(tbl, td, cd, dimension_col), 2)]

\* _iv_cost_by_decile, called with a date column the table has.  The amount
\* cells of the model are numbers, which pd.to_numeric(..).fillna(0) keeps.
ColumnOf(rows, col) == [i \in 1..Len(rows) |-> rows[i][col]]

BenchOfAll(sub, date_col, value_col, cd) == ColumnOf(sub, value_col)

\* bench = sub[sub["d"] == compare_date]["value"]
Bench(sub, date_col, value_col, cd) ==
    ColumnOf(SelectSeq(sub, LAMBDA r : _to_day(r[date_col]) = cd), value_col)

\* np.unique(np.percentile(bench, np.linspace(0, 100, bins + 1)[1:-1])), each
\* percentile times k.
Percentiles(bench, k) == QuantilesOfSorted(Sorted(bench), k, 1, k - 1)

\* pd.cut(sub["value"], [-inf, quantiles.., inf], labels=False): the number of
\* breakpoints below the value.
BinColumn(sub, value_col, k, qs) ==
    [i \in 1..Len(sub) |-> Cardinality({q \in qs : q < k * sub[i][value_col]})]

CostIvOfQuantiles(sub, date_col, value_col, td, k, qs) ==
    IF Cardinality(qs) < 2 THEN 0
    ELSE WoeIv(BinColumn(sub, value_col, k, qs),
               [i \in 1..Len(sub) |-> IF _to_day(sub[i][date_col]) = td THEN 1 ELSE 0],
               Cardinality(qs) + 1, FALSE)

CostIvOfBench(sub, date_col, value_col, td, k, bench) ==
    IF Len(bench) < 2 THEN 0
    ELSE CostIvOfQuantiles(sub, date_col, value_col, td, k, Percentiles(bench, k))

CostIvOfSub(sub, date_col, value_col, td, cd, k) ==
    IF sub = <<>> THEN 0
    ELSE CostIvOfBench(sub, date_col, value_col, td, k,
                       Bench(sub, date_col, value_col, cd))

\* sub = df[df["d"].isin([today, compare_date])]
SubOf(tbl, date_col, td, cd) ==
    SelectSeq(tbl.rows, LAMBDA r : _to_day(r[date_col]) \in {td, cd})

_iv_cost_by_decile(tbl, date_col, value_col, td, cd, k) ==
    IF value_col \notin tbl.cols THEN 0
    ELSE CostIvOfSub(SubOf(tbl, date_col, td, cd), date_col, value_col, td, cd, k)

\* The locals quantiles and sub["bin"] of _iv_cost_by_decile when it returns,
\* unset ({} and <<>>) where it returns before the assignment.
LocalsOfQuantiles(sub, value_col, k, qs) ==
    [quantiles |-> qs,
     bin |-> IF Cardinality(qs) < 2 THEN <<>> ELSE BinColumn(sub, value_col, k, qs)]

LocalsOfBench(sub, value_col, k, bench) ==
    IF Len(bench) < 2 THEN [quantiles |-> {}, bin |-> <<>>]
    ELSE LocalsOfQuantiles(sub, value_col, k, Percentiles(bench, k))

LocalsOfSub(sub, date_col, value_col, cd, k) ==
    IF sub = <<>> THEN [quantiles |-> {}, bin |-> <<>>]
    ELSE LocalsOfBench(sub, value_col, k, Bench(sub, date_col, value_col, cd))

CostLocals(tbl, date_col, value_col, td, cd, k) ==
    IF value_col \notin tbl.cols THEN [quantiles |-> {}, bin |-> <<>>]
    ELSE LocalsOfSub(SubOf(tbl, date_col, td, cd), date_col, value_col, cd, k)

Entry(name, iv) == [name |-> name, iv |-> iv]

\* compute_iv_for_cost_columns: the rows of the frame it returns.
compute_iv_for_cost_columns(it, ad, td, cd) ==
    (IF "discount_amount" \in it.cols /\ "order_ts" \in it.cols
     THEN <<Entry("coupon", _iv_cost_by_decile(it, "order_ts", "discount_amount", td, cd, 10))>>
     ELSE <<>>)
    \o
    (IF "event_ts" \in ad.cols /\ "amount" \in ad.cols
     THEN <<Entry("refund", _iv_cost_by_decile(ad, "event_ts", "amount", td, cd, 10))>>
     ELSE <<>>)

\* key=lambda x: -x[1]
SortKeyAscending(e) == e.iv

SortKey(e) == -e.iv

\* list.sort is stable: an element goes after the elements whose key is not
\* greater than its own.
RECURSIVE InsertByKey(_, _)
InsertByKey(s, e) ==
    IF s = <<>> THEN <<e>>
    ELSE IF SortKey(e) < SortKey(Head(s)) THEN <<e>> \o s
    ELSE <<Head(s)>> \o InsertByKey(Tail(s), e)

RECURSIVE SortByKey(_)
SortByKey(s) ==
    IF s = <<>> THEN <<>>
    ELSE InsertByKey(SortByKey(SubSeq(s, 1, Len(s) - 1)), s[Len(s)])

\* The factors in the order get_iv_ranking appends them.
Registration == <<"channel", "ad", "influencer", "coupon", "refund">>

\* get_iv_ranking: names stand for the labels
\* channel = "채널/비채널 (매출)", ad = "광고/비광고 (매출)",
\* influencer = "인플루언서/비인플루언서 (매출)", coupon = "쿠폰비용 (비용)",
\* refund = "환불액 (비용)".
RankingOf(channel_iv, ad_iv, influencer_iv, cost_iv_df) ==
    IF channel_iv.raised \/ ad_iv.raised \/ influencer_iv.raised
    THEN [raised |-> TRUE, ranking |-> <<>>]
    ELSE [raised |-> FALSE,
          ranking |-> SortByKey(<<Entry("channel", channel_iv.iv),
                                  Entry("ad", ad_iv.iv),
                                  Entry("influencer", influencer_iv.iv)>>
                                \o cost_iv_df)]

\* The three binary factors are computed first; a KeyError of one of them
\* leaves get_iv_ranking before compute_iv_for_cost_columns is called.
get_iv_ranking(it, ad, td, cd) ==
    RankingOf(compute_iv_binary(it, td, cd, "channel"),
              compute_iv_binary(it, td, cd, "ad_id"),
              compute_iv_binary(it, td, cd, "influencer_id"),
              IF "order_ts" \in it.cols
              THEN compute_iv_for_cost_columns(it, ad, td, cd) ELSE <<>>)

Table(cols, rows) == [cols |-> cols, rows |-> rows]

----------------------------------------------------------------------------
(* report_tables.py: build_key_metric_table, build_cost_detail_table *)

\* No payload built yet.
NoSalesDetail == [label |-> "none", today |-> <<>>, base |-> <<>>]

NoComponents ==
    [key_metric |-> <<>>, pct_summary |-> <<>>, full_ranking |-> <<>>,
     high_ranking |-> <<>>, tables |-> <<>>]

\* An optional table: None, or a frame of columns and rows.
NoneTable == [none |-> TRUE, cols |-> {}, rows |-> <<>>]

OptTable(cols, rows) == [none |-> FALSE, cols |-> cols, rows |-> rows]

\* DataFrame.empty: no rows or no columns.
Empty(t) == t.rows = <<>> \/ t.cols = {}

CostCols == {"event_ts", "date", "amount", "cost"}

CostRow(ts, dd, amt, cst) == [event_ts |-> ts, date |-> dd, amount |-> amt, cost |-> cst]

\* The rows of a cost table: the date cell is a date; the last row is booked
\* on the day after its event.
SampleCostRows == << CostRow(11, 1, 7, 5), CostRow(21, 2, 3, 2), CostRow(13, 2, 11, 13) >>

OptTables ==
    {NoneTable, OptTable(CostCols, <<>>)}
    \cup {OptTable(c, SampleCostRows) : c \in SUBSET CostCols}

Abs(x) == IF x < 0 THEN -x ELSE x

\* gross(d)
gross(it, d) == ColumnSum(OnDay(it, "order_ts", d), _sales_col(it))

RefundSigned(ad, d) == ColumnSum(OnDay(ad, "event_ts", d), "amount")

\* refund_abs(d)
refund_abs(ad, d) == Abs(ColumnSum(OnDay(ad, "event_ts", d), "amount"))

\* coupon(d), the same in both builders
coupon(it, d) ==
    IF "discount_amount" \notin it.cols THEN 0
    ELSE ColumnSum(OnDay(it, "order_ts", d), "discount_amount")

\* amt_col = "amount" if "amount" in dc.columns else "cost"
AmtCol(t) == IF "amount" \in t.cols THEN "amount" ELSE "cost"

\* dc.loc[dc[date] == d, amt_col].sum(), the date column set from event_ts
\* when the table has one.
DatedSum(t, d) ==
    ColumnSum(SelectSeq(t.rows,
                  LAMBDA r : (IF "event_ts" \in t.cols THEN _to_day(r.event_ts)
                              ELSE r.date) = d),
              AmtCol(t))

\* build_key_metric_table.ad_cost(d)
ad_cost(t, d) ==
    IF t.none \/ Empty(t) \/ "date" \notin t.cols THEN 0
    ELSE IF AmtCol(t) \notin t.cols THEN 0
    ELSE DatedSum(t, d)

\* build_key_metric_table.inf_cost(d)
inf_cost(t, d) ==
    IF t.none \/ Empty(t) THEN 0
    ELSE IF "event_ts" \notin t.cols /\ "date" \notin t.cols THEN 0
    ELSE IF AmtCol(t) \notin t.cols THEN 0
    ELSE DatedSum(t, d)

\* build_cost_detail_table.ad_cost(d)
cd_ad_cost(t, d) ==
    IF t.none \/ Empty(t) THEN 0
    ELSE IF "event_ts" \notin t.cols /\ "date" \notin t.cols THEN 0
    ELSE IF AmtCol(t) \notin t.cols THEN 0
    ELSE DatedSum(t, d)

\* build_cost_detail_table.inf_cost(d)
cd_inf_cost(t, d) ==
    IF t.none \/ Empty(t) THEN 0
    ELSE IF "event_ts" \notin t.cols /\ "date" \notin t.cols THEN 0
    ELSE IF AmtCol(t) \notin t.cols THEN 0
    ELSE DatedSum(t, d)

payment_fee == 0

\* One row of the key metric table from its components.
KeyMetricRow(label, d, sales, refund, cpn, adc, infc) ==
    [label |-> label, date |-> d, sales |-> sales,
     cost |-> cpn + infc + adc + payment_fee + refund,
     profit |-> sales - (cpn + infc + adc + payment_fee + refund)]

\* The body of "for label, d in [...]" of build_key_metric_table.
KeyMetricRowOf(label, d, it, ad, adc, infc) ==
    KeyMetricRow(label, d, gross(it, d), refund_abs(ad, d), coupon(it, d),
                 ad_cost(adc, d), inf_cost(infc, d))

\* items["order_ts"], adj["event_ts"], items[col] and adj["amount"] raise
\* KeyError on a table without the column.
RequiredMissing(it, ad) ==
    \/ "order_ts" \notin it.cols
    \/ "event_ts" \notin ad.cols
    \/ "amount" \notin ad.cols

\* build_key_metric_table
build_key_metric_table(td, cd, it, ad, adc, infc) ==
    IF RequiredMissing(it, ad) \/ _sales_col(it) \notin it.cols
    THEN [raised |-> TRUE, df |-> <<>>]
    ELSE [raised |-> FALSE,
          df |-> << KeyMetricRowOf("today", td, it, ad, adc, infc),
                    KeyMetricRowOf("base", cd, it, ad, adc, infc) >>]

CostDetailRow(d, cpn, infc, adc, refund) ==
    [date |-> d, coupon |-> cpn, influencer |-> infc, ad |-> adc, fee |-> 0,
     refund |-> refund, total |-> cpn + infc + adc + 0 + refund]

\* The body of "for d in [today, compare_date]" of build_cost_detail_table.
CostDetailRowOf(d, it, ad, adc, infc) ==
    CostDetailRow(d, coupon(it, d), cd_inf_cost(infc, d), cd_ad_cost(adc, d),
                  refund_abs(ad, d))

\* build_cost_detail_table
build_cost_detail_table(td, cd, it, ad, adc, infc) ==
    IF RequiredMissing(it, ad)
    THEN [raised |-> TRUE, df |-> <<>>]
    ELSE [raised |-> FALSE,
          df |-> << CostDetailRowOf(td, it, ad, adc, infc),
                    CostDetailRowOf(cd, it, ad, adc, infc) >>]

----------------------------------------------------------------------------
(* report_tables.py: the frames the functions assign to *)

\* The frame df itself as the object a function assigns to: what the caller
\* holds changes with it.
Alias(df) == [shared |-> TRUE, frame |-> df]

\* df.copy(): an object of its own with the columns and cells of df.
copy(df) == [shared |-> FALSE, frame |-> df]

\* w[c] = f(row): column c is added or its cells are overwritten.  A row of
\* the model has a cell for each column a table is given with; a derived
\* column such as "d" has no cell.
Assign(w, c, f(_)) ==
    LET rows == w.frame.rows
        cell(r) == IF c \in DOMAIN r THEN [r EXCEPT ![c] = f(r)] ELSE r
    IN [shared |-> w.shared,
        frame |-> [w.frame EXCEPT !.cols = @ \cup {c},
                                  !.rows = [i \in 1..Len(rows) |-> cell(rows[i])]]]

\* w["d"] = _to_day(w[date_col]), which raises on a frame without date_col
\* and leaves it as it was.
WithDay(w, date_col) ==
    IF date_col \in w.frame.cols
    THEN Assign(w, "d", LAMBDA r : _to_day(r[date_col]))
    ELSE w

\* What the variable of the caller holds after a function assigned to w.
CallerSees(df, w) == IF w.shared THEN w.frame ELSE df

Frames(it, ad, adc, infc) ==
    [items |-> it, adj |-> ad, ad_costs |-> adc, influencer_costs |-> infc]

\* The tables of the caller after a call.
Leaves(f) ==
    /\ items' = f.items
    /\ adj' = f.adj
    /\ ad_costs' = f.ad_costs
    /\ influencer_costs' = f.influencer_costs

\* build_key_metric_table.ad_cost: dc = ad_costs.copy(); dc["date"] = ...
KeyMetricAdCost(t) ==
    IF t.none \/ Empty(t) \/ "date" \notin t.cols THEN t
    ELSE IF "event_ts" \in t.cols
    THEN CallerSees(t, Assign(copy(t), "date", LAMBDA r : _to_day(r.event_ts)))
    ELSE CallerSees(t, copy(t))

\* build_key_metric_table.inf_cost: dc = influencer_costs.copy(); dc["date"] = ...
KeyMetricInfCost(t) ==
    IF t.none \/ Empty(t) THEN t
    ELSE IF "event_ts" \in t.cols
    THEN CallerSees(t, Assign(copy(t), "date", LAMBDA r : _to_day(r.event_ts)))
    ELSE CallerSees(t, copy(t))

\* build_key_metric_table: items and adj are copied and given "d"; the cost
\* tables are reached when no earlier statement raised.
KeyMetricFrames(it, ad, adc, infc) ==
    LET raised == RequiredMissing(it, ad) \/ _sales_col(it) \notin it.cols
    IN Frames(CallerSees(it, WithDay(copy(it), "order_ts")),
              IF "order_ts" \in it.cols
              THEN CallerSees(ad, WithDay(copy(ad), "event_ts")) ELSE ad,
              IF raised THEN adc ELSE KeyMetricAdCost(adc),
              IF raised THEN infc ELSE KeyMetricInfCost(infc))

\* build_cost_detail_table.ad_cost / inf_cost: dc = t.copy(); dc["d"] = ...
CostDetailCost(t) ==
    IF t.none \/ Empty(t) THEN t
    ELSE IF "event_ts" \in t.cols THEN CallerSees(t, WithDay(copy(t), "event_ts"))
    ELSE IF "date" \in t.cols THEN CallerSees(t, WithDay(copy(t), "date"))
    ELSE CallerSees(t, copy(t))

\* build_cost_detail_table: as build_key_metric_table; refund_abs, which
\* reads adj["amount"], is called after the two cost functions.
CostDetailFrames(it, ad, adc, infc) ==
    LET raised == "order_ts" \notin it.cols \/ "event_ts" \notin ad.cols
    IN Frames(CallerSees(it, WithDay(copy(it), "order_ts")),
              IF "order_ts" \in it.cols
              THEN CallerSees(ad, WithDay(copy(ad), "event_ts")) ELSE ad,
              IF raised THEN adc ELSE CostDetailCost(adc),
              IF raised THEN infc ELSE CostDetailCost(infc))

\* _stack_binary_for_iv: items = items.copy(); items["d"] = ...;
\* items[binary_col] = 0 or valid.astype(int), whose cells 1 and 0 are
\* written "1" and "0" here.
StackFrame(it, binary_col) ==
    CallerSees(it, Assign(WithDay(copy(it), "order_ts"), binary_col,
                          LAMBDA r : IF binary_col \in it.cols /\ ValidMember(r[binary_col])
                                     THEN "1" ELSE "0"))

\* _iv_cost_by_decile: df = df.copy(); df["d"] = _to_day(df[date_col])
DecileFrame(df, date_col) == CallerSees(df, WithDay(copy(df), date_col))

\* get_iv_ranking: three calls of compute_iv_binary, then
\* compute_iv_for_cost_columns; the first statement that reads
\* items["order_ts"] raises on a table without it.
RankingFrames(it, ad, adc, infc) ==
    IF "order_ts" \notin it.cols THEN Frames(it, ad, adc, infc)
    ELSE Frames(IF "discount_amount" \in it.cols
                THEN DecileFrame(StackFrame(StackFrame(StackFrame(it, "channel"), "ad_id"),
                                            "influencer_id"), "order_ts")
                ELSE StackFrame(StackFrame(StackFrame(it, "channel"), "ad_id"),
                                "influencer_id"),
                IF "event_ts" \in ad.cols /\ "amount" \in ad.cols
                THEN DecileFrame(ad, "event_ts") ELSE ad,
                adc, infc)

RankIdle ==
    /\ kpc = "idle"
    /\ items = Table({}, <<>>)
    /\ adj = Table({}, <<>>)
    /\ today = 0
    /\ compare_date = 0
    /\ iv_ranking = <<>>
    /\ kerr = "none"
    /\ threshold = 0
    /\ top_n = 0
    /\ high_iv_tables = <<>>
    /\ products = "omitted"
    /\ ad_costs = NoneTable
    /\ influencer_costs = NoneTable
    /\ key_metric_df = <<>>
    /\ cost_detail_df = <<>>
    /\ kmerr = "none"
    /\ cderr = "none"
    /\ components = NoComponents
    /\ sales_detail = NoSalesDetail

\* The tables and dates of one report: every order-item table with a sample
\* adjustment table, every adjustment table with a sample order-item table,
\* the sample tables with every column set, all of these without cost tables,
\* and the sample tables with every pair of optional cost tables.
RankInit ==
    /\ kpc = "start"
    /\ \/ /\ items \in {Table(ItemCols, r) : r \in RowSeqs(ItemRowList, MaxItems)}
          /\ adj \in {Table(AdjCols, SampleAdjRows), Table(AdjCols, <<>>)}
          /\ ad_costs = NoneTable
          /\ influencer_costs = NoneTable
       \/ /\ items = Table(ItemCols, SampleItemRows)
          /\ adj \in {Table(AdjCols, r) : r \in RowSeqs(AdjRowList, MaxAdj)}
          /\ ad_costs = NoneTable
          /\ influencer_costs = NoneTable
       \/ /\ items \in {Table(c, SampleItemRows) : c \in ItemColSets}
          /\ adj \in {Table(c, SampleAdjRows) : c \in AdjColSets}
          /\ ad_costs = NoneTable
          /\ influencer_costs = NoneTable
       \/ /\ items = Table(ItemCols, SampleItemRows)
          /\ adj = Table(AdjCols, SampleAdjRows)
          /\ ad_costs \in OptTables
          /\ influencer_costs \in OptTables
    /\ today = 1
    /\ compare_date \in Dates
    /\ iv_ranking = <<>>
    /\ kerr = "none"
    /\ threshold = 0
    /\ top_n = 0
    /\ high_iv_tables = <<>>
    /\ products = "omitted"
    /\ key_metric_df = <<>>
    /\ cost_detail_df = <<>>
    /\ kmerr = "none"
    /\ cderr = "none"
    /\ components = NoComponents
    /\ sales_detail = NoSalesDetail

\* The two metric tables and the exceptions of their builders.
metricVars == <<key_metric_df, cost_detail_df, kmerr, cderr>>

\* The dates and arguments the calls of the report share.
reportArgs == <<today, compare_date, threshold, top_n, products>>

\* The tables the caller passes to the functions of the report.
callerTables == <<items, adj, ad_costs, influencer_costs>>

\* key_metric_df = build_key_metric_table(today, compare_date, items, adj,
\*                     ad_costs=ad_costs, influencer_costs=influencer_costs)
KeyMetricOutcome(r) ==
    IF r.raised
    THEN kmerr' = "KeyError" /\ UNCHANGED key_metric_df
    ELSE key_metric_df' = r.df /\ UNCHANGED kmerr

CallBuildKeyMetricTable ==
    /\ kpc = "start"
    /\ kpc' = "keyed"
    /\ KeyMetricOutcome(build_key_metric_table(today, compare_date, items, adj,
                                               ad_costs, influencer_costs))
    /\ Leaves(KeyMetricFrames(items, adj, ad_costs, influencer_costs))
    /\ UNCHANGED <<reportArgs, iv_ranking, kerr, high_iv_tables, components,
                   cost_detail_df, cderr>>
    /\ UNCHANGED <<regVars, woeVars, coreVars, costVars, uiVars, sales_detail>>

\* cost_detail_df = build_cost_detail_table(today, compare_date, items, adj,
\*                      ad_costs=ad_costs, influencer_costs=influencer_costs)
CostDetailOutcome(r) ==
    IF r.raised
    THEN cderr' = "KeyError" /\ UNCHANGED cost_detail_df
    ELSE cost_detail_df' = r.df /\ UNCHANGED cderr

CallBuildCostDetailTable ==
    /\ kpc = "keyed"
    /\ kpc' = "ready"
    /\ CostDetailOutcome(build_cost_detail_table(today, compare_date, items, adj,
                                                 ad_costs, influencer_costs))
    /\ Leaves(CostDetailFrames(items, adj, ad_costs, influencer_costs))
    /\ UNCHANGED <<reportArgs, iv_ranking, kerr, high_iv_tables, components,
                   key_metric_df, kmerr>>
    /\ UNCHANGED <<regVars, woeVars, coreVars, costVars, uiVars, sales_detail>>

RankOutcome(r) ==
    IF r.raised
    THEN /\ kpc' = "failed"
         /\ kerr' = "KeyError"
         /\ UNCHANGED iv_ranking
    ELSE /\ kpc' = "ranked"
         /\ iv_ranking' = r.ranking
         /\ UNCHANGED kerr

\* iv_result = get_iv_ranking(items, adj, today, compare_date)
CallGetIvRanking ==
    /\ kpc = "ready"
    /\ RankOutcome(get_iv_ranking(items, adj, today, compare_date))
    /\ Leaves(RankingFrames(items, adj, ad_costs, influencer_costs))
    /\ UNCHANGED <<reportArgs, high_iv_tables, metricVars, components>>
    /\ UNCHANGED <<regVars, woeVars, coreVars, costVars, uiVars, sales_detail>>

----------------------------------------------------------------------------
(* report_tables.py: _iv_cost_by_decile on a table of cost rows *)

\* Most copies of one baseline value in a cost table; today has up to twice
\* as many of its value.
MaxCopies == 3

CostTableCols == {"ts", "value"}

CostTableRow(dd, v) == [ts |-> 10 * dd + 1, value |-> v]

Copies(r, n) == [i \in 1..n |-> r]

\* The dates of the call: today, the baseline date, and the rows of a third
\* day the call leaves out.
CostDates == [today |-> 1, compare_date |-> 2, other |-> 3]

\* n10, n50 and n90 rows of values 10, 50 and 90 on day dd.
RowsOfDay(dd, n10, n50, n90) ==
    Copies(CostTableRow(dd, 10), n10) \o Copies(CostTableRow(dd, 50), n50)
        \o Copies(CostTableRow(dd, 90), n90)

\* The rows of today of the cost tables: mostly the middle value.
TodayRowSets ==
    {RowsOfDay(CostDates.today, a, b, c) :
        a \in 0..1, b \in 0..(2 * MaxCopies), c \in 0..1}

\* The rows of the baseline date: mostly the two outer values.
BaseRowSets ==
    {RowsOfDay(CostDates.compare_date, a, b, c) :
        a \in 0..MaxCopies, b \in 0..1, c \in 0..MaxCopies}

OtherRowSets == {RowsOfDay(CostDates.other, 0, b, 0) : b \in 0..1}

CostBinsArgs == {2, 3, 10}

CostIdle ==
    /\ cpc = "idle"
    /\ cost_df = Table({}, <<>>)
    /\ cost_bins = 0
    /\ quantiles = {}
    /\ bin = <<>>
    /\ cost_iv = 0

CostInit ==
    /\ cpc = "ready"
    /\ cost_df \in {Table(CostTableCols, t \o b \o o) :
                       t \in TodayRowSets, b \in BaseRowSets, o \in OtherRowSets}
    /\ cost_bins \in CostBinsArgs
    /\ quantiles = {}
    /\ bin = <<>>
    /\ cost_iv = 0

SetLocals(l) == quantiles' = l.quantiles /\ bin' = l.bin

\* _iv_cost_by_decile(cost_df, "ts", "value", today, compare_date, bins=cost_bins)
CallIvCostByDecile ==
    /\ cpc = "ready"
    /\ cpc' = "done"
    /\ cost_iv' = _iv_cost_by_decile(cost_df, "ts", "value", CostDates.today,
                                     CostDates.compare_date, cost_bins)
    /\ SetLocals(CostLocals(cost_df, "ts", "value", CostDates.today,
                            CostDates.compare_date, cost_bins))
    /\ UNCHANGED <<cost_df, cost_bins>>
    /\ UNCHANGED <<regVars, woeVars, rankVars, coreVars, uiVars>>

----------------------------------------------------------------------------
(* report_tables.py: get_high_iv_detail_tables *)

ThresholdArgs == {0, 20000}

TopNArgs == {1, 2, 5}

\* rows.groupby(id_col, dropna=dropna)[col].sum(): group key -> sum.
GroupSum(rows, id_col, col, dropna) ==
    LET all == {rows[i][id_col] : i \in 1..Len(rows)}
        keys == IF dropna THEN all \ {NULL} ELSE all
    IN [g \in keys |->
           ColumnSum(SelectSeq(rows, LAMBDA r : r[id_col] = g), col)]

\* The member ids of the model in sorted order, a missing id last.
IdOrder == <<"P1", "P2", "a1", "app", "c1", "c2", "i1", "none", "web", NULL>>

IdRank(S) == [v \in S |-> CHOOSE i \in 1..Len(IdOrder) : IdOrder[i] = v]

\* The elements of S in ascending order of rank.
RECURSIVE SortBy(_, _)
SortBy(S, rank) ==
    IF S = {} THEN <<>>
    ELSE LET v == CHOOSE x \in S : \A y \in S : rank[x] <= rank[y]
         IN <<v>> \o SortBy(S \ {v}, rank)

\* idx = g_t.index.union(g_b.index) and the frame built on it, a member
\* without rows on one date with value 0 (reindex(idx, fill_value=0)).
UnionFrame(g_t, g_b, rank) ==
    LET idx == SortBy(DOMAIN g_t \cup DOMAIN g_b, rank)
    IN [i \in 1..Len(idx) |->
           [id |-> idx[i],
            today |-> IF idx[i] \in DOMAIN g_t THEN g_t[idx[i]] ELSE 0,
            base |-> IF idx[i] \in DOMAIN g_b THEN g_b[idx[i]] ELSE 0]]

\* sort_values on the today column; rows with equal values keep their order.
PrecedesAscending(e, h, ascending) == e.today < h.today

\* e sorts before h: the ascending argument of sort_values.
Precedes(e, h, ascending) ==
    IF ascending THEN e.today < h.today ELSE e.today > h.today

RECURSIVE InsertByToday(_, _, _)
InsertByToday(s, e, ascending) ==
    IF s = <<>> THEN <<e>>
    ELSE IF Precedes(e, Head(s), ascending)
         THEN <<e>> \o s
         ELSE <<Head(s)>> \o InsertByToday(Tail(s), e, ascending)

RECURSIVE SortByToday(_, _)
SortByToday(s, ascending) ==
    IF s = <<>> THEN <<>>
    ELSE InsertByToday(SortByToday(SubSeq(s, 1, Len(s) - 1), ascending), s[Len(s)], ascending)

\* DataFrame.head(n) for n >= 0
HeadAll(s, n) == s

Head_n(s, n) == SubSeq(s, 1, IF n < Len(s) THEN n ELSE Len(s))

\* _detail_table_today_base
_detail_table_today_base(tbl, td, cd, id_col, n) ==
    IF id_col \notin tbl.cols THEN <<>>
    ELSE LET col == _sales_col(tbl)
             g_t == GroupSum(OnDay(tbl, "order_ts", td), id_col, col, FALSE)
             g_b == GroupSum(OnDay(tbl, "order_ts", cd), id_col, col, FALSE)
             df == UnionFrame(g_t, g_b, IdRank(DOMAIN g_t \cup DOMAIN g_b))
         IN Head_n(SortByToday(df, FALSE), n)

\* _summary_two_rows
_summary_two_rows(td, cd, col_name, val_today, val_compare) ==
    << [date |-> td, col |-> col_name, value |-> val_today],
       [date |-> cd, col |-> col_name, value |-> val_compare] >>

\* adj.reset_index(): every row gets its position as column "index".
WithIndex(rows) ==
    [i \in 1..Len(rows) |->
        [index |-> i - 1, event_ts |-> rows[i].event_ts,
         product_id |-> rows[i].product_id, amount |-> rows[i].amount]]

\* _refund_detail_top5
_refund_detail_top5(tbl, td, cd, n) ==
    LET id_col == IF "product_id" \in tbl.cols THEN "product_id" ELSE "index"
        rows == WithIndex(tbl.rows)
        rows_t == SelectSeq(rows, LAMBDA r : _to_day(r.event_ts) = td)
        rows_b == SelectSeq(rows, LAMBDA r : _to_day(r.event_ts) = cd)
        \* groupby(id_col) drops the rows whose key is missing; a position in
        \* column "index" is never missing
        g_t == GroupSum(rows_t, id_col, "amount", id_col = "product_id")
        g_b == GroupSum(rows_b, id_col, "amount", id_col = "product_id")
        idx == DOMAIN g_t \cup DOMAIN g_b
        rank == IF id_col = "index" THEN [v \in idx |-> v] ELSE IdRank(idx)
    IN [summary |-> _summary_two_rows(td, cd, "refund",
                        ColumnSum(rows_t, "amount"), ColumnSum(rows_b, "amount")),
        detail |-> Head_n(SortByToday(UnionFrame(g_t, g_b, rank), TRUE), n)]

\* _coupon_detail_top5; the tables of the model have no coupon_code column.
_coupon_detail_top5(tbl, td, cd, n) ==
    IF "discount_amount" \notin tbl.cols
    THEN [summary |-> _summary_two_rows(td, cd, "coupon", 0, 0), detail |-> <<>>]
    ELSE LET rows_t == OnDay(tbl, "order_ts", td)
             rows_b == OnDay(tbl, "order_ts", cd)
             summary == _summary_two_rows(td, cd, "coupon",
                            ColumnSum(rows_t, "discount_amount"),
                            ColumnSum(rows_b, "discount_amount"))
         IN IF "coupon_id" \notin tbl.cols
            THEN [summary |-> summary, detail |-> <<>>]
            ELSE LET g_t == GroupSum(rows_t, "coupon_id", "discount_amount", FALSE)
                     g_b == GroupSum(rows_b, "coupon_id", "discount_amount", FALSE)
                     df == UnionFrame(g_t, g_b, IdRank(DOMAIN g_t \cup DOMAIN g_b))
                 IN [summary |-> summary,
                     detail |-> Head_n(SortByToday(df, FALSE), n)]

\* "if iv > threshold" of the list high
AboveOrEqual(iv, th) == iv >= th

Above(iv, th) == iv > th

Block(e, summary, detail) ==
    [factor |-> e.name, iv |-> e.iv, summary_table |-> summary, detail_table |-> detail]

\* The body of "for name, iv in high": the blocks one entry appends to out.
BlocksOf(e, it, ad, td, cd, n) ==
    LET summary_sales ==
            _summary_two_rows(td, cd, "sales",
                ColumnSum(OnDay(it, "order_ts", td), _sales_col(it)),
                ColumnSum(OnDay(it, "order_ts", cd), _sales_col(it)))
    IN IF e.name = "influencer" /\ "influencer_id" \in it.cols
       THEN <<Block(e, summary_sales,
                    _detail_table_today_base(it, td, cd, "influencer_id", n))>>
       ELSE IF e.name = "channel" /\ "channel" \in it.cols
       THEN <<Block(e, summary_sales,
                    _detail_table_today_base(it, td, cd, "channel", n))>>
       ELSE IF e.name = "ad" /\ "ad_id" \in it.cols
       THEN <<Block(e, summary_sales,
                    _detail_table_today_base(it, td, cd, "ad_id", n))>>
       ELSE IF e.name = "refund"
       THEN LET r == _refund_detail_top5(ad, td, cd, n)
            IN <<Block(e, r.summary, r.detail)>>
       ELSE IF e.name = "coupon"
       THEN LET r == _coupon_detail_top5(it, td, cd, n)
            IN <<Block(e, r.summary, r.detail)>>
       ELSE <<>>

RECURSIVE BlocksOfAll(_, _, _, _, _, _)
BlocksOfAll(high, it, ad, td, cd, n) ==
    IF high = <<>> THEN <<>>
    ELSE BlocksOf(Head(high), it, ad, td, cd, n)
         \o BlocksOfAll(Tail(high), it, ad, td, cd, n)

\* get_high_iv_detail_tables: raised when a column it indexes is missing
\* (order_ts or the sales column of items; event_ts or amount of adj when the
\* refund factor is expanded).
get_high_iv_detail_tables(it, ad, td, cd, ranking, th, n) ==
    LET high == SelectSeq(ranking, LAMBDA e : Above(e.iv, th))
        raised == \/ "order_ts" \notin it.cols
                  \/ _sales_col(it) \notin it.cols
                  \/ /\ \E i \in 1..Len(high) : high[i].name = "refund"
                     /\ ("event_ts" \notin ad.cols \/ "amount" \notin ad.cols)
    IN IF raised THEN [raised |-> TRUE, out |-> <<>>]
       ELSE [raised |-> FALSE, out |-> BlocksOfAll(high, it, ad, td, cd, n)]

\* products=products of the call of the report page, or no such keyword.
ProductsArgs == {"omitted", "supplied"}

\* The binding of the call's keywords to the parameters of the def: the
\* parameter list has no products.
AcceptsKeywords(p) == p = "omitted"

\* get_high_iv_detail_tables: items_d = items.copy(); items_d["d"] = ...;
\* _detail_table_today_base and _coupon_detail_top5 do the same on a copy of
\* their own, _refund_detail_top5 on a copy of adj when the refund factor is
\* above the threshold.
DetailFrames(it, ad, adc, infc, ranking, th) ==
    Frames(CallerSees(it, WithDay(copy(it), "order_ts")),
           IF /\ "order_ts" \in it.cols
              /\ \E i \in 1..Len(ranking) :
                    ranking[i].name = "refund" /\ Above(ranking[i].iv, th)
           THEN CallerSees(ad, WithDay(copy(ad), "event_ts")) ELSE ad,
           adc, infc)

\* _norm_fill_null(items, col, True): a cell that is missing, empty or "none"
\* becomes NA.
_norm_fill_null(w, col) ==
    Assign(w, col, LAMBDA r : IF ValidMember(r[col]) THEN r[col] ELSE NULL)

\* The column a build_sales_detail_* function groups by: "채널구분", "광고id",
\* "인플루언서id".
LabelOf(id_col) ==
    CASE id_col = "channel" -> "channel_label"
      [] id_col = "ad_id" -> "ad_label"
      [] id_col = "influencer_id" -> "influencer_label"

\* The local items of a build_sales_detail_* function when it returns.
SalesDetailWork(it, id_col) ==
    IF id_col \in it.cols
    THEN Assign(_norm_fill_null(WithDay(copy(it), "order_ts"), id_col),
                LabelOf(id_col), LAMBDA r : r[id_col])
    ELSE IF id_col = "channel"
    THEN Assign(Assign(WithDay(copy(it), "order_ts"), id_col, LAMBDA r : NULL),
                LabelOf(id_col), LAMBDA r : NULL)
    ELSE WithDay(copy(it), "order_ts")

\* The sales of day dd by member: g of "for label, d in [...]".
SalesByMember(work, id_col, dd) ==
    GroupSum(OnDay(work.frame, "order_ts", dd), id_col, _sales_col(work.frame), FALSE)

\* build_sales_detail_channel, build_sales_detail_ad (ad_id),
\* build_sales_detail_influencer (influencer_id): the sales of each day by
\* member; without the column the last two return one row of NA and 0.0 for
\* each day.
build_sales_detail(td, cd, it, id_col) ==
    IF "order_ts" \notin it.cols
    THEN [raised |-> TRUE, df |-> NoSalesDetail]
    ELSE IF id_col \notin it.cols /\ id_col # "channel"
    THEN [raised |-> FALSE,
          df |-> [label |-> LabelOf(id_col), today |-> (NULL :> 0), base |-> (NULL :> 0)]]
    ELSE [raised |-> _sales_col(it) \notin it.cols,
          df |-> [label |-> LabelOf(id_col),
                  today |-> SalesByMember(SalesDetailWork(it, id_col), id_col, td),
                  base |-> SalesByMember(SalesDetailWork(it, id_col), id_col, cd)]]

SalesDetailFrames(it, ad, adc, infc, id_col) ==
    IF "order_ts" \notin it.cols THEN Frames(it, ad, adc, infc)
    ELSE Frames(CallerSees(it, SalesDetailWork(it, id_col)), ad, adc, infc)

SalesDetailOutcome(r) ==
    IF r.raised
    THEN /\ kpc' = "unlisted"
         /\ kerr' = "KeyError"
         /\ UNCHANGED sales_detail
    ELSE /\ kpc' = "listed"
         /\ sales_detail' = r.df
         /\ UNCHANGED kerr

\* build_sales_detail_channel(today, compare_date, items) and the two
\* functions for ad_id and influencer_id, called on the tables of a report.
CallBuildSalesDetail ==
    /\ kpc = "start"
    /\ \E id_col \in {"channel", "ad_id", "influencer_id"} :
          /\ SalesDetailOutcome(build_sales_detail(today, compare_date, items, id_col))
          /\ Leaves(SalesDetailFrames(items, adj, ad_costs, influencer_costs, id_col))
    /\ UNCHANGED <<reportArgs, iv_ranking, high_iv_tables, metricVars, components>>
    /\ UNCHANGED <<regVars, woeVars, coreVars, costVars, uiVars>>

DetailOutcome(r) ==
    IF r.raised
    THEN /\ kpc' = "failed"
         /\ kerr' = "KeyError"
         /\ UNCHANGED high_iv_tables
    ELSE /\ kpc' = "detailed"
         /\ high_iv_tables' = r.out
         /\ UNCHANGED kerr

\* high_iv_tables = get_high_iv_detail_tables(items, adj, today, compare_date,
\*                      iv_result, cost_detail_df, threshold, top_n[, products])
CallGetHighIvDetailTables ==
    /\ kpc = "ranked"
    /\ \E th \in ThresholdArgs, n \in TopNArgs, p \in ProductsArgs :
          /\ threshold' = th
          /\ top_n' = n
          /\ products' = p
          /\ IF AcceptsKeywords(p)
             THEN /\ DetailOutcome(get_high_iv_detail_tables(items, adj, today,
                                       compare_date, iv_ranking, th, n))
                  /\ Leaves(DetailFrames(items, adj, ad_costs, influencer_costs,
                                         iv_ranking, th))
             ELSE /\ kpc' = "failed"
                  /\ kerr' = "TypeError"
                  /\ UNCHANGED <<high_iv_tables, callerTables>>
    /\ UNCHANGED <<today, compare_date, iv_ranking, metricVars, components>>
    /\ UNCHANGED <<regVars, woeVars, coreVars, costVars, uiVars, sales_detail>>

----------------------------------------------------------------------------
(* report_tables.py: build_components_for_llm *)

\* round(n / d, 0) for d # 0: the nearest integer, a tie to the even one.
RoundDiv(n, d) ==
    LET N == IF d < 0 THEN -n ELSE n
        D == Abs(d)
        q == N \div D
        r == N - q * D
    IN IF 2 * r < D THEN q
       ELSE IF 2 * r > D THEN q + 1
       ELSE IF q % 2 = 0 THEN q ELSE q + 1

\* round(((a - b) / b * 100) if b != 0 else 0, 1), in tenths of a percent
Pct(a, b) == IF b # 0 THEN RoundDiv((a - b) * 1000, b) ELSE 0

KeyMetricCols == {"sales", "cost", "profit"}

\* The first row of key_metric_df with the given label.
RowLabelled(kdf, label) ==
    kdf[CHOOSE i \in 1..Len(kdf) :
            kdf[i].label = label /\ \A j \in 1..(i - 1) : kdf[j].label # label]

PctEntry(a, b) == [today |-> a, base |-> b, pct |-> Pct(a, b)]

PctSummary(row_today, row_base) ==
    [col \in KeyMetricCols |-> PctEntry(row_today[col], row_base[col])]

AtLeastThreshold(iv, th) == iv >= th

\* "if iv > threshold" of high_ranking
AboveThreshold(iv, th) == iv > th

RankingRecord(e) == [factor |-> e.name, IV |-> e.iv]

\* _records(df): the rows of df, [] for None or an empty frame.
_records(df) == df

TableRecord(t) ==
    [factor |-> t.factor, iv |-> t.iv,
     summary |-> _records(t.summary_table), detail |-> _records(t.detail_table)]

\* The payload of build_components_for_llm when no statement raises.
Payload(kdf, ranking, tables, th) ==
    [key_metric |-> kdf,
     pct_summary |-> IF Len(kdf) >= 2
                     THEN PctSummary(RowLabelled(kdf, "today"), RowLabelled(kdf, "base"))
                     ELSE <<>>,
     full_ranking |-> [i \in 1..Len(ranking) |-> RankingRecord(ranking[i])],
     high_ranking |-> [i \in 1..Len(SelectSeq(ranking, LAMBDA e : AboveThreshold(e.iv, th)))
                          |-> RankingRecord(SelectSeq(ranking,
                                  LAMBDA e : AboveThreshold(e.iv, th))[i])],
     tables |-> [i \in 1..Len(tables) |-> TableRecord(tables[i])]]

\* key_metric_df[key_metric_df["구분"] == label] is empty: .iloc[0] raises
\* IndexError.
NoRowLabelled(kdf, label) == \A i \in 1..Len(kdf) : kdf[i].label # label

\* build_components_for_llm: ranking stands for iv_ranking.get("ranking", []),
\* which is [] for a dict without the key.
build_components_for_llm(kdf, ranking, tables, th) ==
    IF Len(kdf) >= 2 /\ (NoRowLabelled(kdf, "today") \/ NoRowLabelled(kdf, "base"))
    THEN [raised |-> TRUE, components |-> NoComponents]
    ELSE [raised |-> FALSE, components |-> Payload(kdf, ranking, tables, th)]

AssembleOutcome(r, returned, raised) ==
    IF r.raised
    THEN /\ kpc' = raised
         /\ kerr' = "IndexError"
         /\ UNCHANGED components
    ELSE /\ kpc' = returned
         /\ components' = r.components
         /\ UNCHANGED kerr

\* components = build_components_for_llm(key_metric_df, iv_result,
\*                  high_iv_tables, threshold=iv_threshold)
CallBuildComponentsForLlm ==
    /\ kpc = "detailed"
    /\ kmerr = "none"
    /\ AssembleOutcome(build_components_for_llm(key_metric_df, iv_ranking,
                                                high_iv_tables, threshold),
                       "packed", "failed")
    /\ UNCHANGED <<reportArgs, callerTables, iv_ranking, high_iv_tables, metricVars>>
    /\ UNCHANGED <<regVars, woeVars, coreVars, costVars, uiVars, sales_detail>>

\* The arguments of a call of build_components_for_llm alone: a key metric
\* table of up to two rows, a ranking, high-IV tables and a threshold.
KeyMetricRows ==
    {KeyMetricRow(l, 1, v, 0, 0, 0, 0) : l \in {"today", "base"}, v \in {0, 2}}

KeyMetricTables ==
    {<<>>} \cup {<<a>> : a \in KeyMetricRows}
           \cup {<<a, b>> : a \in KeyMetricRows, b \in KeyMetricRows}

SampleRankings ==
    {<<>>, <<Entry("channel", 0)>>, <<Entry("refund", 30000), Entry("channel", 10000)>>}

SampleHighTables ==
    {<<>>, <<Block(Entry("refund", 30000), <<>>, <<>>)>>}

AssembleInit ==
    /\ kpc = "assemble"
    /\ items = Table({}, <<>>)
    /\ adj = Table({}, <<>>)
    /\ today = 0
    /\ compare_date = 0
    /\ iv_ranking \in SampleRankings
    /\ kerr = "none"
    /\ threshold \in ThresholdArgs
    /\ top_n = 0
    /\ high_iv_tables \in SampleHighTables
    /\ products = "omitted"
    /\ ad_costs = NoneTable
    /\ influencer_costs = NoneTable
    /\ key_metric_df \in KeyMetricTables
    /\ cost_detail_df = <<>>
    /\ kmerr = "none"
    /\ cderr = "none"
    /\ components = NoComponents
    /\ sales_detail = NoSalesDetail

\* build_components_for_llm(key_metric_df, iv_ranking, high_iv_tables, threshold)
\* called on its own.
CallAssembler ==
    /\ kpc = "assemble"
    /\ AssembleOutcome(build_components_for_llm(key_metric_df, iv_ranking,
                                                high_iv_tables, threshold),
                       "assembled", "broken")
    /\ UNCHANGED <<reportArgs, callerTables, iv_ranking, high_iv_tables, metricVars>>
    /\ UNCHANGED <<regVars, woeVars, coreVars, costVars, uiVars, sales_detail>>

----------------------------------------------------------------------------
(* core.py: the _row helpers *)

\* Largest absolute value of an argument of _row.
MaxAmount == 3

\* The functions of core.py that define a _row.
Helpers == {"get_comparison_kpis", "get_top_three_metrics", "get_sales_decomposition"}

\* The values _row is called with: signed sums and ratios in
\* get_comparison_kpis (refund) and get_top_three_metrics (profit ratio),
\* counts and averages in get_sales_decomposition.
RowArgs(h) ==
    IF h = "get_sales_decomposition" THEN 0..MaxAmount ELSE (-MaxAmount)..MaxAmount

RowDict(c, p, pct) == [current |-> c, compare |-> p, delta |-> c - p, pct |-> pct]

\* get_comparison_kpis._row; pct in tenths of a percent
_row_kpis(c, p) ==
    RowDict(c, p, IF p # 0 THEN RoundDiv((c - p) * 1000, Abs(p))
                  ELSE IF c - p > 0 THEN 1000
                  ELSE IF c - p = 0 THEN 0 ELSE -1000)

\* get_top_three_metrics._row
_row_top_three(c, p) ==
    RowDict(c, p, IF p # 0 THEN RoundDiv((c - p) * 1000, p)
                  ELSE IF c - p > 0 THEN 1000 ELSE 0)

\* get_sales_decomposition._row
_row_decomposition(c, p) ==
    RowDict(c, p, IF p # 0 THEN RoundDiv((c - p) * 1000, p)
                  ELSE IF c - p > 0 THEN 1000 ELSE 0)

_row(h, c, p) ==
    CASE h = "get_comparison_kpis" -> _row_kpis(c, p)
      [] h = "get_top_three_metrics" -> _row_top_three(c, p)
      [] h = "get_sales_decomposition" -> _row_decomposition(c, p)

NoRow == RowDict(0, 0, 0)

CoreIdle ==
    /\ ppc = "idle"
    /\ helper = "none"
    /\ current = 0
    /\ compare = 0
    /\ row = NoRow

CoreInit ==
    /\ ppc = "ready"
    /\ helper \in Helpers
    /\ current \in RowArgs(helper)
    /\ compare \in RowArgs(helper)
    /\ row = NoRow

\* _row(current, compare) in the return statement of helper
CallRow ==
    /\ ppc = "ready"
    /\ ppc' = "done"
    /\ row' = _row(helper, current, compare)
    /\ UNCHANGED <<helper, current, compare>>
    /\ UNCHANGED <<regVars, woeVars, rankVars, costVars, uiVars>>

----------------------------------------------------------------------------
(* app_0220_2.py: the session of the report page *)

\* Most messages of the chat history before a prompt is submitted.
MaxMessages == 3

\* period_days, with two of its periods
period_days == [D1 |-> 1, D7 |-> 7]

\* The days the date input can be set to; the default is date(2026, 1, 31).
UiDates == {30, 31}

\* A key of st.session_state that is not set.
NoKey == <<>>

NoReport == [present |-> FALSE, today |-> 0, compare_date |-> 0]

NoChat == [present |-> FALSE, msgs |-> <<>>]

\* today and compare_date of a run of the script
UiToday == benchmark_date_input

UiCompareDate == benchmark_date_input - period_days[report_period]

\* _report_key = (today, compare_date)
_report_key == <<UiToday, UiCompareDate>>

TodayChanged(stored, key) == stored = NoKey \/ stored[1] # key[1]

\* st.session_state.get("iv_report_key") != _report_key
KeyChanged(stored, key) == stored # key

\* The report and the context generated from the components of a run.
ReportOf(td, cd) == [present |-> TRUE, today |-> td, compare_date |-> cd]

Message(role, content) == [role |-> role, content |-> content]

\* list.pop()
Pop(s) == SubSeq(s, 1, Len(s) - 1)

UiIdle ==
    /\ upc = "off"
    /\ event = "none"
    /\ benchmark_date_input = 31
    /\ report_period = "D1"
    /\ iv_report_key = NoKey
    /\ iv_report = NoReport
    /\ iv_report_context = NoReport
    /\ iv_chat_messages = NoChat
    /\ shown = NoReport
    /\ rendered = {}

\* The first run of the script in a session: session_state is empty and the
\* two widget keys get their defaults.
UiInit ==
    /\ upc = "run"
    /\ event = "none"
    /\ benchmark_date_input = 31
    /\ report_period = "D1"
    /\ iv_report_key = NoKey
    /\ iv_report = NoReport
    /\ iv_report_context = NoReport
    /\ iv_chat_messages = NoChat
    /\ shown = NoReport
    /\ rendered = {}

sessionVars == <<iv_report_key, iv_report, iv_report_context, iv_chat_messages>>

\* An event of the user starts a run of the script from the top: the page
\* is drawn again.
StartRun(e) ==
    /\ upc = "idle"
    /\ upc' = "run"
    /\ event' = e
    /\ shown' = NoReport
    /\ rendered' = {}
    /\ UNCHANGED sessionVars

\* st.date_input("기준일", key="benchmark_date_input")
SelectDate ==
    /\ \E d \in UiDates \ {benchmark_date_input} : benchmark_date_input' = d
    /\ StartRun("date")
    /\ UNCHANGED report_period
    /\ UNCHANGED <<regVars, woeVars, rankVars, coreVars, costVars>>

\* st.selectbox("비교 기준일", list(period_days.keys()), key="report_period")
SelectPeriod ==
    /\ \E p \in (DOMAIN period_days) \ {report_period} : report_period' = p
    /\ StartRun("period")
    /\ UNCHANGED benchmark_date_input
    /\ UNCHANGED <<regVars, woeVars, rankVars, coreVars, costVars>>

\* st.button("IV 기반 LLM 리포트 생성") pressed
PressButton ==
    /\ "button" \in rendered
    /\ StartRun("button")
    /\ UNCHANGED <<benchmark_date_input, report_period>>
    /\ UNCHANGED <<regVars, woeVars, rankVars, coreVars, costVars>>

\* a prompt submitted in st.chat_input
SubmitPrompt ==
    /\ "chat_input" \in rendered
    /\ Len(iv_chat_messages.msgs) < MaxMessages
    /\ StartRun("prompt")
    /\ UNCHANGED <<benchmark_date_input, report_period>>
    /\ UNCHANGED <<regVars, woeVars, rankVars, coreVars, costVars>>

\* if st.session_state.get("iv_report_key") != _report_key: pop the four
\* keys; st.session_state["iv_report_key"] = _report_key
CheckReportKey ==
    /\ upc = "run"
    /\ upc' = "checked"
    /\ IF KeyChanged(iv_report_key, _report_key)
       THEN /\ iv_report' = NoReport
            /\ iv_report_context' = NoReport
            /\ iv_chat_messages' = NoChat
       ELSE UNCHANGED <<iv_report, iv_report_context, iv_chat_messages>>
    /\ iv_report_key' = _report_key
    /\ UNCHANGED <<event, benchmark_date_input, report_period, shown, rendered>>
    /\ UNCHANGED <<regVars, woeVars, rankVars, coreVars, costVars>>

\* The charts and tables of the page, from the try of the tables to the
\* button: a call that raises ends the run in the handler
\* "except Exception as e: st.warning(...)".
BuildTables ==
    /\ upc = "checked"
    /\ \E raised \in BOOLEAN :
          IF raised
          THEN upc' = "idle" /\ event' = "none"
          ELSE upc' = "built" /\ UNCHANGED event
    /\ UNCHANGED <<benchmark_date_input, report_period, sessionVars, shown, rendered>>
    /\ UNCHANGED <<regVars, woeVars, rankVars, coreVars, costVars>>

\* What a call of core.generate_iv_report / core.answer_report_question does:
\* it returns, raises the RuntimeError of a missing OPENAI_API_KEY, raises
\* another RuntimeError, or raises another exception (of the API client).
LlmOutcomes == {"returned", "RuntimeError: OPENAI_API_KEY", "RuntimeError", "Exception"}

\* if st.button(...): generate and store the report
ButtonBlock ==
    /\ upc = "built"
    /\ rendered' = rendered \cup {"button"}
    /\ IF event = "button"
       THEN \E o \in LlmOutcomes :
               /\ IF o = "returned"
                  THEN /\ iv_report' = ReportOf(UiToday, UiCompareDate)
                       /\ iv_report_context' = ReportOf(UiToday, UiCompareDate)
                       /\ iv_report_key' = <<UiToday, UiCompareDate>>
                       /\ iv_chat_messages' = IF iv_chat_messages.present
                                              THEN iv_chat_messages
                                              ELSE [present |-> TRUE, msgs |-> <<>>]
                  ELSE UNCHANGED sessionVars
               /\ IF o \in {"RuntimeError", "Exception"}
                  THEN upc' = "idle" /\ event' = "none"
                  ELSE upc' = "pressed" /\ UNCHANGED event
       ELSE /\ upc' = "pressed"
            /\ UNCHANGED <<event, sessionVars>>
    /\ UNCHANGED <<benchmark_date_input, report_period, shown>>
    /\ UNCHANGED <<regVars, woeVars, rankVars, coreVars, costVars>>

\* The chat history after the prompt of the run was handled: the user message
\* is appended, then the reply is appended, or the message is popped in
\* "except RuntimeError", or another exception leaves the block.
AfterPrompt(msgs, o) ==
    IF o = "returned"
    THEN Append(Append(msgs, Message("user", "prompt")), Message("assistant", "reply"))
    ELSE IF o \in {"RuntimeError: OPENAI_API_KEY", "RuntimeError"}
    THEN Pop(Append(msgs, Message("user", "prompt")))
    ELSE Append(msgs, Message("user", "prompt"))

\* if st.session_state.get("iv_report"): show the report and the chat, handle
\* the prompt and st.rerun(); else show the hint.
ReportBlock ==
    /\ upc = "pressed"
    /\ IF iv_report.present
       THEN /\ shown' = iv_report
            /\ rendered' = rendered \cup {"chat_input"}
            /\ IF event = "prompt"
               THEN \E o \in LlmOutcomes :
                       /\ iv_chat_messages' =
                              [present |-> TRUE, msgs |-> AfterPrompt(iv_chat_messages.msgs, o)]
                       /\ upc' = IF o = "Exception" THEN "idle" ELSE "run"
               ELSE /\ iv_chat_messages' = [present |-> TRUE, msgs |-> iv_chat_messages.msgs]
                    /\ upc' = "idle"
       ELSE /\ upc' = "idle"
            /\ UNCHANGED <<shown, rendered, iv_chat_messages>>
    /\ event' = "none"
    /\ UNCHANGED <<benchmark_date_input, report_period, iv_report_key, iv_report,
                   iv_report_context>>
    /\ UNCHANGED <<regVars, woeVars, rankVars, coreVars, costVars>>

----------------------------------------------------------------------------
(* Specifications *)

Init == RegInit /\ WoeIdle /\ RankIdle /\ CoreIdle /\ CostIdle /\ UiIdle

Next == RegNext

Spec == Init /\ [][Next]_vars

IvInit ==
    /\ RegInit
    /\ CoreIdle
    /\ UiIdle
    /\ \/ WoeInit /\ RankIdle /\ CostIdle
       \/ WoeIdle /\ RankInit /\ CostIdle
       \/ WoeIdle /\ RankIdle /\ CostInit
       \/ WoeIdle /\ AssembleInit /\ CostIdle

IvNext ==
    \/ CallWoeIv
    \/ CallBuildKeyMetricTable
    \/ CallBuildCostDetailTable
    \/ CallGetIvRanking
    \/ CallGetHighIvDetailTables
    \/ CallBuildComponentsForLlm
    \/ CallIvCostByDecile
    \/ CallAssembler
    \/ CallBuildSalesDetail

\* A call in progress goes on: the interpreter executes the next statement
\* of compute_metric / compute_category until the method returns or raises.
SpecLive == Init /\ [][Next]_vars /\ WF_vars(TopCall \/ DepCall \/ Invoke \/ Return)

SpecIV == IvInit /\ [][IvNext]_vars

CoreSpecInit == RegInit /\ WoeIdle /\ RankIdle /\ CostIdle /\ CoreInit /\ UiIdle

CoreNext == CallRow

SpecCore == CoreSpecInit /\ [][CoreNext]_vars

UiSpecInit == RegInit /\ WoeIdle /\ RankIdle /\ CoreIdle /\ CostIdle /\ UiInit

UiNext ==
    \/ SelectDate
    \/ SelectPeriod
    \/ PressButton
    \/ SubmitPrompt
    \/ CheckReportKey
    \/ BuildTables
    \/ ButtonBlock
    \/ ReportBlock

SpecUI == UiSpecInit /\ [][UiNext]_vars

----------------------------------------------------------------------------
(* Properties of the metric registry *)

\* Keys named by depends_on of a registered key.
Succ(ms, k) == IF k \in DOMAIN ms THEN SeqRange(ms[k].depends_on) ELSE {}

RECURSIVE Closure(_, _, _)
Closure(ms, S, n) ==
    LET T == S \cup UNION {Succ(ms, k) : k \in S}
    IN IF n = 0 \/ T = S THEN S ELSE Closure(ms, T, n - 1)

\* The key itself and every key reachable from it through depends_on.
Reach(ms, k) == Closure(ms, {k}, Cardinality(Keys))

\* Keys reachable from k in one or more steps.
ReachStrict(ms, k) == Closure(ms, Succ(ms, k), Cardinality(Keys))

Acyclic(ms) == \A k \in DOMAIN ms : k \notin ReachStrict(ms, k)

CycleReachable(ms, k) == \E j \in Reach(ms, k) : j \in ReachStrict(ms, j)

\* Number of times the compute function of k was invoked in the call.
Calls(k) == Cardinality({i \in 1..Len(log) : log[i].key = k})

Finished == rpc \in {"done", "failed"}

\* C1: for an acyclic registry, a call of compute_metric never invokes a
\* compute function twice, and when it returns, the compute function of every
\* metric reachable from the requested key has been invoked exactly once.
C1_EachReachableOnce ==
    (call.kind = "metric" /\ Acyclic(metrics)) =>
        /\ \A k \in Keys : Calls(k) <= 1
        /\ rpc = "done" => \A k \in Reach(metrics, call.key) : Calls(k) = 1

\* The diamond: D computed, B and C both depend on A, A invoked once.
C1_Witness ==
    /\ call.kind = "metric" /\ call.key = "D" /\ rpc = "done"
    /\ Acyclic(metrics)
    /\ metrics["D"].depends_on = <<"B", "C">>
    /\ "A" \in Succ(metrics, "B") /\ "A" \in Succ(metrics, "C")
    /\ Calls("A") = 1 /\ Len(log) = 4

\* C2: during one call of compute_category every compute function, also one
\* of a metric of another category that several requested metrics share, is
\* invoked at most once.
C2_CategoryAtMostOnce ==
    call.kind = "category" => \A k \in Keys : Calls(k) <= 1

\* Category Profit with B, C and D requested; A (category Sales) is shared.
C2_Witness ==
    /\ call.kind = "category" /\ call.category = "Profit" /\ rpc = "done"
    /\ DOMAIN out = {"B", "C", "D"}
    /\ metrics["A"].category = "Sales"
    /\ Calls("A") = 1 /\ Len(log) = 4

UnregisteredReachable ==
    \E k \in Reach(metrics, call.key) : k \notin DOMAIN metrics

\* C3 as stated: compute_metric fails with KeyError and returns no result
\* whenever the requested key or a key reachable from it is not registered.
C3_AlwaysKeyError ==
    (call.kind = "metric" /\ Finished /\ UnregisteredReachable) =>
        (rpc = "failed" /\ err = "KeyError" /\ result = NoResult)

\* C3 amended: in that case compute_metric raises and returns no result; the
\* exception is KeyError unless a compute function invoked before the
\* unregistered key is reached returned a table without a value column
\* (ValueError) or a dependency cycle is entered first (RecursionError).
C3_FailsWhenUnregistered ==
    (call.kind = "metric" /\ Finished /\ UnregisteredReachable) =>
        /\ rpc = "failed" /\ result = NoResult
        /\ err \in {"KeyError", "ValueError", "RecursionError"}
        /\ err = "ValueError" => (Len(log) > 0 /\ ~log[Len(log)].hasValue)
        /\ err = "RecursionError" => CycleReachable(metrics, call.key)

\* An unregistered dependency met after other metrics were computed.
C3_Witness ==
    /\ call.kind = "metric" /\ rpc = "failed" /\ err = "KeyError"
    /\ call.key \in DOMAIN metrics
    /\ UnregisteredReachable
    /\ Len(log) >= 1

\* C4: when a compute function returns a table without a value column the call
\* fails with ValueError, and that table is not in the cache, not among the
\* returned results and was not handed to any compute function.
C4_NoValueFails ==
    \A i \in 1..Len(log) :
        ~log[i].hasValue =>
            LET df == [by |-> log[i].key, n |-> i]
            IN /\ rpc = "failed" /\ err = "ValueError" /\ result = NoResult
               /\ df \notin Range(cache)
               /\ df \notin Range(out)
               /\ \A j \in 1..Len(log) : df \notin Range(log[j].deps)

\* A compute function raises ValueError after others were computed and cached.
C4_Witness ==
    /\ rpc = "failed" /\ err = "ValueError"
    /\ Len(log) >= 2 /\ ~log[Len(log)].hasValue
    /\ log[Len(log)].deps # EmptyMap
    /\ DOMAIN cache # {}

----------------------------------------------------------------------------
(* Properties of woe_iv, get_iv_ranking and get_high_iv_detail_tables *)

RegIndex(name) == CHOOSE i \in 1..Len(Registration) : Registration[i] = name

Ranked == kpc \in {"ranked", "detailed"}

\* C5: the ranking get_iv_ranking returns is in descending order of IV, and
\* entries with equal IV are in registration order (channel, ad, influencer,
\* coupon, refund).
C5_SortedStable ==
    Ranked =>
        \A i \in 1..Len(iv_ranking) : \A j \in 1..Len(iv_ranking) :
            i < j =>
                /\ iv_ranking[i].iv >= iv_ranking[j].iv
                /\ iv_ranking[i].iv = iv_ranking[j].iv =>
                       RegIndex(iv_ranking[i].name) < RegIndex(iv_ranking[j].name)

\* The sort moved a later factor in front of an earlier one, and two factors
\* with the same non-zero IV stayed in registration order.
C5_Witness ==
    /\ kpc = "ranked"
    /\ Len(iv_ranking) = 5
    /\ \E i \in 1..5 : \E j \in 1..5 :
          /\ i < j
          /\ iv_ranking[i].iv > iv_ranking[j].iv
          /\ RegIndex(iv_ranking[i].name) > RegIndex(iv_ranking[j].name)
    /\ \E i \in 1..5 : \E j \in 1..5 :
          /\ i < j
          /\ iv_ranking[i].iv = iv_ranking[j].iv
          /\ iv_ranking[i].iv > 0

\* The factors whose IV cannot be computed from the tables given: a column
\* the computation reads is absent.
Uncomputable ==
    {f \in {"channel", "ad", "influencer"} : "order_ts" \notin items.cols}
    \cup {f \in {"coupon"} : "order_ts" \notin items.cols
                             \/ "discount_amount" \notin items.cols}
    \cup {f \in {"refund"} : "event_ts" \notin adj.cols \/ "amount" \notin adj.cols}

\* C6: get_iv_ranking returns instead of raising, every factor is in the
\* ranking, and a factor whose IV computation fails has IV = 0.
C6_FailedFactorHasZeroIv ==
    (kpc \in {"ranked", "failed"} /\ top_n = 0) =>
        /\ kerr = "none"
        /\ {iv_ranking[i].name : i \in 1..Len(iv_ranking)} = SeqRange(Registration)
        /\ \A i \in 1..Len(iv_ranking) :
              iv_ranking[i].name \in Uncomputable => iv_ranking[i].iv = 0

\* C7: the IV woe_iv returns for a variable is >= 0, and so is every IV of
\* the ranking of get_iv_ranking.
C7_IvNonNegative ==
    /\ wpc = "done" => IV >= 0
    /\ Ranked => \A i \in 1..Len(iv_ranking) : iv_ranking[i].iv >= 0

\* A numeric column cut into quantile bins with a positive IV.
C7_Witness ==
    /\ wpc = "done"
    /\ numeric /\ Cardinality(SeqRange(data)) > bins
    /\ Cardinality(SeqRange(BinLabels(data, bins, numeric))) = 2
    /\ IV > 0

\* C8: woe_iv returns IV = 0 when the label has fewer than 2 distinct values
\* or the variable has a single level.
C8_DegenerateInputHasZeroIv ==
    (wpc = "done" /\ (Cardinality(SeqRange(target)) < 2
                      \/ Cardinality(SeqRange(data)) = 1)) => IV = 0

HighEntries == SelectSeq(iv_ranking, LAMBDA e : e.iv > threshold)

\* C9: get_high_iv_detail_tables returns one block for every ranking entry
\* with IV > threshold, in ranking order, and no other block.
C9_OneBlockPerHighEntry ==
    kpc = "detailed" =>
        /\ Len(high_iv_tables) = Len(HighEntries)
        /\ \A i \in 1..Len(HighEntries) :
              /\ high_iv_tables[i].factor = HighEntries[i].name
              /\ high_iv_tables[i].iv = HighEntries[i].iv

\* Two factors expanded, one factor with a non-zero IV not above the
\* threshold left out.
C9_Witness ==
    /\ kpc = "detailed"
    /\ Len(high_iv_tables) >= 2
    /\ \E i \in 1..Len(iv_ranking) :
          iv_ranking[i].iv > 0 /\ iv_ranking[i].iv <= threshold

\* C10: in every block the detail table has at most top_n rows and the
\* summary table has 2 rows, the first for today, the second for the baseline.
C10_TableSizes ==
    kpc = "detailed" =>
        \A i \in 1..Len(high_iv_tables) :
            /\ Len(high_iv_tables[i].detail_table) <= top_n
            /\ Len(high_iv_tables[i].summary_table) = 2
            /\ high_iv_tables[i].summary_table[1].date = today
            /\ high_iv_tables[i].summary_table[2].date = compare_date

\* More channels than top_n have rows on the two dates and the detail table
\* of the channel block holds exactly top_n of them.
C10_Witness ==
    /\ kpc = "detailed"
    /\ \E i \in 1..Len(high_iv_tables) :
          /\ high_iv_tables[i].factor = "channel"
          /\ Len(high_iv_tables[i].detail_table) = top_n
          /\ Cardinality({r.channel : r \in SeqRange(OnDay(items, "order_ts", today))
                                            \cup SeqRange(OnDay(items, "order_ts", compare_date))})
                 > top_n

----------------------------------------------------------------------------
(* Properties of the detail tables *)

\* The column a factor's detail table groups by, or "" when the table given
\* has none.
IdColOf(f) ==
    CASE f = "channel" -> IF "channel" \in items.cols THEN "channel" ELSE ""
      [] f = "ad" -> IF "ad_id" \in items.cols THEN "ad_id" ELSE ""
      [] f = "influencer" -> IF "influencer_id" \in items.cols THEN "influencer_id" ELSE ""
      [] f = "coupon" -> IF {"coupon_id", "discount_amount"} \subseteq items.cols
                         THEN "coupon_id" ELSE ""
      [] f = "refund" -> IF "product_id" \in adj.cols THEN "product_id" ELSE "index"

ValueColOf(f) ==
    CASE f \in {"channel", "ad", "influencer"} -> _sales_col(items)
      [] f = "coupon" -> "discount_amount"
      [] f = "refund" -> "amount"

\* The rows of the factor's table of day dd.
RowsOf(f, dd) ==
    IF f = "refund"
    THEN SelectSeq(WithIndex(adj.rows), LAMBDA r : _to_day(r.event_ts) = dd)
    ELSE OnDay(items, "order_ts", dd)

\* The member ids with rows on today or on the baseline date.
Members(f) ==
    IF IdColOf(f) = "" THEN {}
    ELSE {r[IdColOf(f)] : r \in SeqRange(RowsOf(f, today))
                                \cup SeqRange(RowsOf(f, compare_date))}

\* The aggregate of member m on day dd, 0 without rows.
DayValue(f, m, dd) ==
    ColumnSum(SelectSeq(RowsOf(f, dd), LAMBDA r : r[IdColOf(f)] = m), ValueColOf(f))

\* The members groupby keeps: _refund_detail_top5 groups by product id
\* without dropna=False.
Grouped(f) ==
    IF f = "refund" /\ IdColOf(f) = "product_id" THEN Members(f) \ {NULL}
    ELSE Members(f)

DetailIds(d) == {d[j].id : j \in 1..Len(d)}

\* d is the first n of the grouped members of f in the given direction of
\* today's value.
TopNByToday(f, d, n, ascending) ==
    /\ Len(d) = (IF Cardinality(Grouped(f)) < n THEN Cardinality(Grouped(f)) ELSE n)
    /\ DetailIds(d) \subseteq Grouped(f)
    /\ \A j \in 1..Len(d) : d[j].today = DayValue(f, d[j].id, today)
    /\ \A j \in 1..Len(d), k \in 1..Len(d) :
          j < k => IF ascending THEN d[j].today <= d[k].today
                   ELSE d[j].today >= d[k].today
    /\ \A m \in Grouped(f) \ DetailIds(d) : \A j \in 1..Len(d) :
          IF ascending THEN d[j].today <= DayValue(f, m, today)
          ELSE d[j].today >= DayValue(f, m, today)

C12_NoMemberDropped ==
    kpc = "detailed" =>
        \A i \in 1..Len(high_iv_tables) :
            LET f == high_iv_tables[i].factor
                d == high_iv_tables[i].detail_table
            IN \/ Len(d) = top_n
               \/ \A m \in Members(f) : \E j \in 1..Len(d) :
                     /\ d[j].id = m
                     /\ d[j].today = DayValue(f, m, today)
                     /\ d[j].base = DayValue(f, m, compare_date)

\* C14: the percent change of each key metric is +100 for a baseline of 0
\* and a positive value of today, 0 when both are 0, and
\* (today - baseline) / baseline * 100 for a baseline other than 0.
C14_PctOfKeyMetrics ==
    (kpc = "packed" /\ Len(key_metric_df) >= 2) =>
        \A col \in KeyMetricCols :
            LET e == components.pct_summary[col]
            IN /\ e.today = key_metric_df[1][col]
               /\ e.base = key_metric_df[2][col]
               /\ (e.base = 0 /\ e.today > 0) => e.pct = 1000
               /\ (e.base = 0 /\ e.today = 0) => e.pct = 0
               /\ e.base # 0 => e.pct = RoundDiv((e.today - e.base) * 1000, e.base)

\* C20: the payload lists the whole ranking in order, the entries with
\* IV > threshold in order, and a table block only for a factor with
\* IV > threshold.
C20_PayloadLists ==
    kpc = "packed" =>
        /\ Len(components.full_ranking) = Len(iv_ranking)
        /\ \A i \in 1..Len(iv_ranking) :
              /\ components.full_ranking[i].factor = iv_ranking[i].name
              /\ components.full_ranking[i].IV = iv_ranking[i].iv
        /\ Len(components.high_ranking) = Len(HighEntries)
        /\ \A i \in 1..Len(HighEntries) :
              /\ components.high_ranking[i].factor = HighEntries[i].name
              /\ components.high_ranking[i].IV = HighEntries[i].iv
        /\ \A i \in 1..Len(components.tables) :
              /\ components.tables[i].iv > threshold
              /\ \E j \in 1..Len(iv_ranking) :
                    /\ iv_ranking[j].name = components.tables[i].factor
                    /\ iv_ranking[j].iv = components.tables[i].iv
              /\ components.tables[i].summary = high_iv_tables[i].summary_table
              /\ components.tables[i].detail = high_iv_tables[i].detail_table

\* A payload whose high list is a proper, non-empty part of the ranking, with
\* a factor of non-zero IV left out and a table block for a factor kept.
C20_Witness ==
    /\ kpc = "packed"
    /\ Len(components.high_ranking) >= 1
    /\ Len(components.high_ranking) < Len(components.full_ranking)
    /\ Len(components.tables) >= 1
    /\ \E i \in 1..Len(iv_ranking) :
          iv_ranking[i].iv > 0 /\ iv_ranking[i].iv <= threshold

\* C13: the call of get_high_iv_detail_tables with a product catalog fails
\* only where the call without one fails too.
C13_CatalogNeverFails ==
    (products = "supplied" /\ kpc = "failed") =>
        get_high_iv_detail_tables(items, adj, today, compare_date, iv_ranking,
                                  threshold, top_n).raised

----------------------------------------------------------------------------
(* Properties of the percent helpers, the key metric table and the cost IV *)

\* C15: every _row helper of core.py gives, for a baseline of 0, a percent
\* change of 0 when today is 0 too, +100 when today > 0 and -100 when
\* today < 0.
C15_ZeroBaselineSigned100 ==
    (ppc = "done" /\ compare = 0) =>
        row.pct = (IF current = 0 THEN 0 ELSE IF current > 0 THEN 1000 ELSE -1000)

\* The sum of column col over the rows of day d, by row position.
AmountOn(tbl, date_col, col, d) ==
    Sum([i \in 1..Len(tbl.rows) |-> tbl.rows[i][col]],
        {i \in 1..Len(tbl.rows) : _to_day(tbl.rows[i][date_col]) = d})

\* The positions of the report after the call of build_key_metric_table and
\* after the call of build_cost_detail_table.
AfterKeyMetric == kpc \in {"keyed", "ready", "ranked", "failed", "detailed", "packed"}

AfterCostDetail == kpc \in {"ready", "ranked", "failed", "detailed", "packed"}

KeyMetricBuilt == AfterKeyMetric /\ kmerr = "none"

CostDetailBuilt == AfterCostDetail /\ cderr = "none"

\* The dates of the two rows of the key metric and cost detail tables.
RowDates == <<today, compare_date>>

\* C16: in both rows of the key metric table, total cost is the absolute
\* value of the date's adjustment sum plus the date's coupon, ad and
\* influencer cost, and profit is the date's gross sales minus total cost.
C16_KeyMetricArithmetic ==
    KeyMetricBuilt =>
        /\ Len(key_metric_df) = 2
        /\ \A i \in 1..2 :
              LET refund == Abs(AmountOn(adj, "event_ts", "amount", RowDates[i]))
                  cpn == IF "discount_amount" \in items.cols
                         THEN AmountOn(items, "order_ts", "discount_amount", RowDates[i])
                         ELSE 0
                  sales == AmountOn(items, "order_ts", _sales_col(items), RowDates[i])
              IN /\ key_metric_df[i].date = RowDates[i]
                 /\ key_metric_df[i].sales = sales
                 /\ key_metric_df[i].cost =
                        refund + cpn + ad_cost(ad_costs, RowDates[i])
                            + inf_cost(influencer_costs, RowDates[i])
                 /\ key_metric_df[i].profit = sales - key_metric_df[i].cost

\* A key metric table whose row of today has a refund, a coupon cost, an ad
\* cost and an influencer cost, and whose two rows differ.
C16_Witness ==
    /\ KeyMetricBuilt
    /\ AmountOn(adj, "event_ts", "amount", today) < 0
    /\ coupon(items, today) > 0
    /\ ad_cost(ad_costs, today) > 0
    /\ inf_cost(influencer_costs, today) > 0
    /\ key_metric_df[1].cost # key_metric_df[2].cost
    /\ key_metric_df[1].profit # key_metric_df[1].sales

\* An optional table is usable when it is given, has rows, a date column
\* (event_ts or date) and an amount column (amount or cost).
Usable(t) ==
    /\ ~t.none
    /\ ~Empty(t)
    /\ {"event_ts", "date"} \cap t.cols # {}
    /\ {"amount", "cost"} \cap t.cols # {}

\* The contribution of an optional table on day d: the sum of the day's
\* amounts of a usable table, 0 otherwise.
Contribution(t, d) ==
    IF ~Usable(t) THEN 0
    ELSE Sum([i \in 1..Len(t.rows) |-> t.rows[i][AmtCol(t)]],
             {i \in 1..Len(t.rows) :
                 (IF "event_ts" \in t.cols THEN _to_day(t.rows[i].event_ts)
                  ELSE t.rows[i].date) = d})

\* C17: the two builders fail only for a missing column of a required
\* table, and in both the ad and influencer cost of a date is the
\* contribution of the optional table.
C17_OptionalTablesDegrade ==
    /\ AfterKeyMetric =>
          (kmerr = "none" \/ RequiredMissing(items, adj))
    /\ AfterCostDetail =>
          (cderr = "none" \/ RequiredMissing(items, adj))
    /\ KeyMetricBuilt =>
          \A i \in 1..2 :
              key_metric_df[i].cost =
                  refund_abs(adj, RowDates[i]) + coupon(items, RowDates[i])
                      + Contribution(ad_costs, RowDates[i])
                      + Contribution(influencer_costs, RowDates[i])
    /\ CostDetailBuilt =>
          \A i \in 1..2 :
              /\ cost_detail_df[i].ad = Contribution(ad_costs, RowDates[i])
              /\ cost_detail_df[i].influencer
                     = Contribution(influencer_costs, RowDates[i])

\* The rows of cost_df that are not of today.
NotTodayRows ==
    SelectSeq(cost_df.rows, LAMBDA r : _to_day(r.ts) # CostDates.today)

\* C18: the breakpoints of _iv_cost_by_decile are those of every table with
\* the same baseline rows and other rows of today, and the rows of both
\* dates are binned by them.
C18_BaselineAnchoredBreakpoints ==
    cpc = "done" =>
        /\ \A t \in TodayRowSets :
              CostLocals(Table(cost_df.cols, t \o NotTodayRows), "ts", "value",
                         CostDates.today, CostDates.compare_date,
                         cost_bins).quantiles = quantiles
        /\ bin # <<>> =>
              LET sub == SubOf(cost_df, "ts", CostDates.today, CostDates.compare_date)
              IN /\ Len(bin) = Len(sub)
                 /\ \A i \in 1..Len(sub) :
                       bin[i] = Cardinality({q \in quantiles :
                                                q < cost_bins * sub[i].value})

\* Breakpoints computed from a baseline of two values, with rows of today
\* of a value the baseline does not have.
C18_Witness ==
    /\ cpc = "done"
    /\ Cardinality(quantiles) >= 2
    /\ bin # <<>>
    /\ \E i \in 1..Len(cost_df.rows) :
          /\ _to_day(cost_df.rows[i].ts) = CostDates.today
          /\ \A j \in 1..Len(cost_df.rows) :
                _to_day(cost_df.rows[j].ts) = CostDates.compare_date
                    => cost_df.rows[j].value # cost_df.rows[i].value

\* C19: for baseline values [10,10,10,90,90,90], today values
\* [50,50,50,50,50,50] and bins = 2 the cost IV is > 0.
C19_ExampleIvPositive ==
    (/\ cpc = "done"
     /\ cost_bins = 2
     /\ cost_df.rows = RowsOfDay(CostDates.today, 0, 6, 0)
                           \o RowsOfDay(CostDates.compare_date, 3, 0, 3))
        => cost_iv > 0

----------------------------------------------------------------------------
(* build_components_for_llm called on its own *)

\* C21: build_components_for_llm never raises: with an empty ranking, with no
\* high-IV tables, or with a key metric table that lacks the today or the
\* baseline row it returns a payload, and the ranking lists of the payload
\* are empty when the ranking is.
C21_AlwaysReturnsPayload ==
    /\ kpc # "broken"
    /\ kpc = "assembled" =>
          /\ components.key_metric = key_metric_df
          /\ iv_ranking = <<>> =>
                components.full_ranking = <<>> /\ components.high_ranking = <<>>
          /\ high_iv_tables = <<>> => components.tables = <<>>

\* C22: when a required column is absent (order_ts or the sales amount of the
\* order items, event_ts or amount of the adjustments) build_key_metric_table
\* and get_iv_ranking fail with an error; neither returns a table or a
\* ranking that silently leaves the factor out.
C22_MissingColumnFails ==
    AfterKeyMetric =>
       /\ (RequiredMissing(items, adj) \/ _sales_col(items) \notin items.cols)
             => kmerr = "KeyError"
       /\ kpc \in {"ranked", "detailed", "packed"}
             => ~(RequiredMissing(items, adj) \/ _sales_col(items) \notin items.cols)

\* C23: after any sequence of calls of build_key_metric_table,
\* build_cost_detail_table, get_iv_ranking, get_high_iv_detail_tables and the
\* build_sales_detail_* functions the tables of the caller (items, adj,
\* ad_costs, influencer_costs) have the columns and cells they had before:
\* every assignment is made to a copy.
C23_CallerTablesUnchanged ==
    [][/\ items' = items
       /\ adj' = adj
       /\ ad_costs' = ad_costs
       /\ influencer_costs' = influencer_costs]_vars

\* build_sales_detail_channel returned the sales by channel of a table with a
\* "none" channel cell, grouped under NA, and the table still has the cell
\* and no "d" column.
C23_Witness ==
    /\ kpc = "listed"
    /\ sales_detail.label = "channel_label"
    /\ "channel" \in items.cols
    /\ "d" \notin items.cols
    /\ \E i \in 1..Len(items.rows) :
          /\ items.rows[i].channel = "none"
          /\ _to_day(items.rows[i].order_ts) = today
    /\ NULL \in DOMAIN sales_detail.today
    /\ "none" \notin DOMAIN sales_detail.today

----------------------------------------------------------------------------
(* Properties of the session of the report page *)

\* C24: a run of the page that finds the (today, baseline) pair different
\* from the stored report key removes the report, its context and the chat
\* history before the page shows them, and a report the page holds after
\* that or shows was generated for the selected pair.
C24_ReportOfSelectedPair ==
    /\ [](/\ shown.present =>
                shown.today = UiToday /\ shown.compare_date = UiCompareDate
          /\ (upc \in {"checked", "built", "pressed"} /\ iv_report.present) =>
                iv_report.today = UiToday /\ iv_report.compare_date = UiCompareDate)
    /\ [][(upc = "run" /\ iv_report_key # <<UiToday, UiCompareDate>>) =>
             /\ iv_report' = NoReport
             /\ iv_report_context' = NoReport
             /\ iv_chat_messages' = NoChat]_vars

\* The page shows, with its chat, a report generated after the date and the
\* period were both changed from their defaults.
C24_Witness ==
    /\ shown.present
    /\ shown.today = 30
    /\ shown.compare_date = 23
    /\ Len(iv_chat_messages.msgs) >= 2

\* C30: after a prompt was handled the chat history is the one before it,
\* or that one extended by the user message and the reply: when the page
\* waits for the user the history does not end with a user message.
C30_NoUnansweredUserMessage ==
    (upc = "idle" /\ iv_chat_messages.msgs # <<>>) =>
        iv_chat_messages.msgs[Len(iv_chat_messages.msgs)].role = "assistant"

\* C25: the ranking get_iv_ranking returns for order items with a product
\* identifier column has a product factor.
C25_ProductFactorRanked ==
    (kpc = "ranked" /\ "product_id" \in items.cols) =>
        \E i \in 1..Len(iv_ranking) : iv_ranking[i].name = "product"

----------------------------------------------------------------------------
(* Further properties of the metric registry *)

\* C26: during compute_metric every frame of _compute_recursive has in
\* dep_results the keys of depends_on before the one its loop is at, in
\* declared order, with the results the cache has for them, and the frame
\* above it computes the key the loop is at; a compute function is invoked
\* with exactly the keys of depends_on, each with the cached result of an
\* earlier, completed invocation.
C26_DependenciesFirst ==
    call.kind = "metric" =>
       /\ \A n \in 1..Len(stack) :
             LET f == stack[n]
                 m == metrics[f.key]
             IN /\ f.i <= Len(m.depends_on) + 1
                /\ DOMAIN f.dep_results = {m.depends_on[j] : j \in 1..(f.i - 1)}
                /\ \A d \in DOMAIN f.dep_results :
                      d \in DOMAIN cache /\ f.dep_results[d] = cache[d]
                /\ n < Len(stack) =>
                      /\ f.i <= Len(m.depends_on)
                      /\ stack[n + 1].key = m.depends_on[f.i]
       /\ \A i \in 1..Len(log) :
             LET e == log[i]
                 m == metrics[e.key]
             IN /\ DOMAIN e.deps = SeqRange(m.depends_on)
                /\ \A d \in DOMAIN e.deps :
                      /\ d \in DOMAIN cache /\ e.deps[d] = cache[d]
                      /\ \E j \in 1..(i - 1) :
                            /\ log[j].key = d
                            /\ log[j].hasValue
                            /\ e.deps[d] = [by |-> d, n |-> j]

\* D is computed: B is done, and the frame of C, the second key of D, has
\* taken A from the cache and is about to invoke the compute function of C.
C26_Witness ==
    /\ call.kind = "metric" /\ rpc = "running"
    /\ Len(stack) = 2
    /\ stack[1].key = "D" /\ stack[1].i = 2
    /\ DOMAIN stack[1].dep_results = {"B"}
    /\ stack[2].key = "C"
    /\ DOMAIN stack[2].dep_results = {"A"}
    /\ Len(log) = 2

C28_TerminatesUnlessCyclic ==
    /\ (rpc = "running" /\ call.kind = "metric" /\ ~CycleReachable(metrics, call.key))
          ~> (Finished /\ err # "RecursionError")
    /\ [](call.kind = "metric" =>
             \A n \in 1..Len(stack) : stack[n].key \notin DOMAIN cache)
    /\ [][(rpc = "running" /\ call.kind = "metric"
              /\ CycleReachable(metrics, call.key)) => rpc' # "done"]_vars

\* A call of compute_metric on a key that reaches the cycle of A and D ended
\* in RecursionError without a result, after the recursion went round the
\* cycle.
C28_Witness ==
    /\ call.kind = "metric" /\ rpc = "failed" /\ err = "RecursionError"
    /\ CycleReachable(metrics, call.key)
    /\ result = NoResult
    /\ cache = EmptyMap

\* C29: for the same tables and dates the total cost of the today and the
\* baseline row of build_key_metric_table is the total cost of the row of
\* that date of build_cost_detail_table, whatever the optional cost tables.
C29_TotalCostsAgree ==
    (KeyMetricBuilt /\ CostDetailBuilt) =>
        \A i \in 1..2 :
            /\ key_metric_df[i].date = cost_detail_df[i].date
            /\ key_metric_df[i].cost = cost_detail_df[i].total

====
